---- MODULE Spec2Model ----
(***************************************************************************)
(* GoDE: audio-reactive theming.                                           *)
(*                                                                         *)
(* The module models                                                       *)
(*   - ReactiveThemeController (src/src/audio/ReactiveThemeController.ts), *)
(*   - the audio player webview script: the draw loop, beat detection and  *)
(*     BPM display (src/src/audio/AudioPlayerProvider.ts),                 *)
(*   - the wiring of the two in the extension (src/src/extension.ts).      *)
(*                                                                         *)
(* Numbers.  The controller computes in IEEE doubles: finite precision,     *)
(* every result rounded to the nearest representable number.  The model    *)
(* computes in decimal fixed point with the same rounding: a smoothed      *)
(* component is stored as its value times Scale, and the result of a       *)
(* smoothing step is rounded to the nearest 1/Scale.  Audio features are   *)
(* stored in hundredths (FeatDen).                                         *)
(*                                                                         *)
(* Colours.  tinycolor2 is a library outside the repository.  A colour is  *)
(* carried as its hue/saturation/lightness (times Scale); the clamping     *)
(* tinycolor2 applies to its input and in darken/lighten/saturate/spin is  *)
(* modelled, the 8-bit RGB quantisation of the hex rendering is not.       *)
(***************************************************************************)
EXTENDS Integers, Sequences, FiniteSets, TLC

\* ------------------------------------------------------------------ bounds
\* Number of processAudioData calls, with frames chosen freely, that reach
\* the smoothing code.
MaxUpdates == 3

\* Number of processAudioData calls that reach the smoothing code in a run
\* that goes on repeating its last frame.
MaxSteady == 40

\* Number of messages the webview may have posted and the extension not yet
\* received.
MaxInFlight == 2

\* Number of frames the draw loop analyses: in the extension as wired, in the
\* beat-history runs (more than the history holds) and in the tempo runs.
MaxDraws == 3
MaxBeatFrames == 45
MaxBpmFrames == 5

\* Number of frames of a beat-history run that are not at the quiet level.
MaxSpikes == 1

\* The largest number of steps asked of generateGradient.
MaxSteps == 5

\* Mel filterbanks: the largest numFilters, the largest bin of a filter given
\* directly to applyMelFilterbank, the longest byte spectrum, and the number
\* of spectra analysed in a run.
MaxFilters == 3
MaxBin == 4
MaxFrameLen == 2
MaxAnalyses == 1
\* Calls made on the configuration before the model stops taking requests,
\* and before it stops calling the setColor tool.
MaxLog == 2
MaxToolLog == 4
\* The most calls one BridgeClient has in flight or settled.
MaxCalls == 2

\* The largest maxSize a ThemeHistoryManager is constructed with.
MaxSize == 3
\* Requests the bridge client sends before the model stops calling the tool.
MaxRequests == 3

\* ------------------------------------------------------- fixed-point units
RECURSIVE Pow10(_)
Pow10(n) == IF n = 0 THEN 1 ELSE 10 * Pow10(n - 1)

\* One unit of hue/saturation/lightness: the arithmetic resolves 1/Scale.
Scale == Pow10(4)

\* Audio features are given in hundredths.
FeatDen == Pow10(2)

Abs(x) == IF x < 0 THEN -x ELSE x
Min(a, b) == IF a < b THEN a ELSE b
Max(a, b) == IF a > b THEN a ELSE b
\* n / d rounded to the nearest integer.
RoundDiv(n, d) == (2 * n + d) \div (2 * d)

\* ------------------------------------------------------------------- state
VARIABLES
    \* ReactiveThemeController fields
    isActive,           \* private isActive
    baseColors,         \* private baseColors: Map<string, string>
    lastHue,            \* private lastHue        (times Scale)
    lastSaturation,     \* private lastSaturation (times Scale)
    lastBrightness,     \* private lastBrightness (times Scale)
    \* VS Code settings
    customizations,     \* workbench.colorCustomizations
    \* webview script state
    audioLoaded,        \* audioElement and audioContext exist
    playing,            \* audioElement is not paused
    reactiveChecked,    \* reactiveToggle.checked
    history,            \* beatDetector.history (energies, hundredths)
    lastBeat,           \* beatDetector.lastBeat (ms)
    bpmText,            \* textContent of #bpm; 0 stands for "--"
    lastUpdateTime,     \* lastUpdateTime (ms)
    now,                \* the clock (ms)
    inbox,              \* audioAnalysis messages posted, not yet received
    \* webview script: mel filterbank and feature extraction
    melConfig,          \* the arguments createMelFilterbank was called with
    melFilterbank,      \* const melFilterbank: filters {leftBin, centerBin, rightBin}
    frequencyData,      \* the analyser's byte spectrum of the current frame
    melSpectrum,        \* applyMelFilterbank(frequencyData, melFilterbank)
    features,           \* analyzeAudioFeatures(frequencyData, melSpectrum)
    \* calls of the colour functions
    args,               \* the arguments of the last call
    result,             \* what the last call returned
    \* the bridge between the MCP server and the extension host
    configLog,          \* get and update calls VSCodeConfig made on the configuration
    requestId,          \* BridgeClient.requestId
    \* ThemeHistoryManager fields
    themeHistory,       \* private history: ThemeSnapshot[]
    currentIndex,       \* private currentIndex
    maxHistorySize,     \* private maxHistorySize
    discarded,          \* observation: snapshots after currentIndex that the last
                        \* operation removed from the history
    \* BridgeClient
    calls,              \* the promises call() returned, in the order of the calls
    \* observation of the run (not program state)
    \* VSCodeConfig
    writes,             \* the colour writes begun, in the order of their start
    \* TerminalController
    terminals,          \* private terminals: Map<number, vscode.Terminal>
    nextId,             \* private nextId
    windowTerminals,    \* vscode.window.terminals: the terminals that are open
    termEvents,         \* open- and close-terminal events VS Code has not yet delivered
    spawned,            \* the number of terminals opened so far
    \* extension.ts and BridgeServer
    bridgeServer,       \* extension.ts: whether bridgeServer is defined
    servers,            \* the HTTP servers start() has created, with port and state
    server,             \* private server: the index in servers of this.server, 0 when undefined
    port,               \* private port
    handedOut,          \* the BRIDGE_PORT of every server definition returned
    \* VisualEffectsController
    activeEffects,      \* private activeEffects: Map<string, NodeJS.Timeout>
    intervals,          \* the setInterval timers not cleared, with the index of each
    dueStops,           \* the setTimeout calls pending that stop an effect
    clock,              \* Date.now(), in milliseconds since the controller was made
    started,            \* the number of timers setInterval has made
    returned,           \* the ids startEffect has returned
    sessionStart,       \* customizations at the last Idle->Active transition
    fed,                \* frames that reached the smoothing code, in order
    trace,              \* energies analysed by the webview, in order
    beats,              \* the isBeat flag computed for each entry of trace
    lastOp              \* the operation that made the last step, its input

ctlVars == <<isActive, baseColors, lastHue, lastSaturation, lastBrightness>>
webVars == <<audioLoaded, playing, reactiveChecked, history, lastBeat, bpmText,
             lastUpdateTime, now, inbox>>
melVars == <<melConfig, melFilterbank, frequencyData, melSpectrum, features>>
obsVars == <<sessionStart, fed, trace, beats, lastOp>>
\* State outside the controller, the settings and the player's controls.
callVars == <<args, result>>
bridgeVars == <<configLog, requestId>>
histVars == <<themeHistory, currentIndex, maxHistorySize, discarded>>
\* State of the extension host's other parts.
clientVars == <<calls>>
writeVars == <<writes>>
termVars == <<terminals, nextId, windowTerminals, termEvents, spawned>>
serverVars == <<bridgeServer, servers, server, port, handedOut>>
fxVars == <<activeEffects, intervals, dueStops, clock, started, returned>>
hostVars == <<histVars, clientVars, writeVars, termVars, serverVars, fxVars>>
libVars == <<melVars, callVars, bridgeVars, hostVars>>
vars == <<ctlVars, customizations, webVars, libVars, obsVars>>

\* ------------------------------------------------- colours and tinycolor2
\* The keys of workbench.colorCustomizations the controller writes.
PaletteKeys ==
    { "editor.background", "editor.selectionBackground",
      "editor.lineHighlightBackground", "editorCursor.foreground",
      "editor.findMatchHighlightBackground", "sideBar.background",
      "sideBarSectionHeader.background", "activityBar.background",
      "activityBar.activeBorder", "activityBar.foreground",
      "statusBar.background", "statusBar.foreground", "terminal.ansiBlue",
      "terminal.ansiMagenta", "terminal.ansiCyan", "chat.requestBackground",
      "chat.slashCommandBackground", "notificationCenter.border",
      "notifications.background", "list.activeSelectionBackground",
      "list.hoverBackground", "list.focusOutline" }

\* A colour string: hue, saturation, lightness (times Scale) and the two hex
\* digits appended after "#RRGGBB", if any.
Hex(h, s, l) == [h |-> h * Scale, s |-> s * Scale, l |-> l * Scale, aa |-> ""]

EmptyMap == [k \in {} |-> Hex(0, 0, 0)]

Clamp(x, lo, hi) == Min(hi, Max(lo, x))

\* tinycolor's convertToPercentage: a number <= 1 is read as a fraction.
ConvertToPercentage(n) == IF n <= Scale THEN n * 100 ELSE n

\* tinycolor({ h, s, l }): h is clamped to [0, 360] and 360 is 0; s and l are
\* clamped to [0, 100].  a is the alpha in tenths.
TinyColor(h, s, l) ==
    [a |-> 10,
     h |-> LET c == Clamp(h, 0, 360 * Scale) IN IF c = 360 * Scale THEN 0 ELSE c,
     s |-> Clamp(ConvertToPercentage(s), 0, 100 * Scale),
     l |-> Clamp(ConvertToPercentage(l), 0, 100 * Scale)]

Darken(c, amount) == [c EXCEPT !.l = Clamp(c.l - amount * Scale, 0, 100 * Scale)]
Lighten(c, amount) == [c EXCEPT !.l = Clamp(c.l + amount * Scale, 0, 100 * Scale)]
Saturate(c, amount) == [c EXCEPT !.s = Clamp(c.s + amount * Scale, 0, 100 * Scale)]
Spin(c, amount) == [c EXCEPT !.h = (c.h + amount * Scale) % (360 * Scale)]
SetAlpha(c, tenths) == [c EXCEPT !.a = tenths]
\* toHexString renders "#RRGGBB": the alpha is dropped.
ToHexString(c) == [h |-> c.h, s |-> c.s, l |-> c.l, aa |-> ""]

\* A string that tinycolor cannot parse.
Unparseable == [text |-> "not-a-colour"]

\* null
Null == [null |-> TRUE]

\* tinycolor(string): an unparseable string gives black with isValid() false.
TinyColorOf(str) ==
    IF "text" \in DOMAIN str
    THEN [a |-> 10, h |-> 0, s |-> 0, l |-> 0, ok |-> FALSE]
    ELSE [a |-> 10, h |-> str.h, s |-> str.s, l |-> str.l, ok |-> TRUE]

IsValid(c) == c.ok

\* ------------------------------------------------ ReactiveThemeController
\* smoothingFactor = 0.3, in tenths.
smoothingFactor == 3

\* captureBaseColors: every entry of the customizations is set in the Map.
CaptureBaseColors(c) == [k \in DOMAIN c |-> c[k]]

\* restoreBaseColors writing the Map's entries over the current customizations.
RestoreMerging(base) ==
    [k \in DOMAIN base \cup DOMAIN customizations |->
        IF k \in DOMAIN base THEN base[k] ELSE customizations[k]]

\* restoreBaseColors: a fresh record holding the Map's entries is written.
RestoreBaseColors(base) == [k \in DOMAIN base |-> base[k]]

TargetHue(data) == ((data.dominantFreq * 360) \div FeatDen) * Scale
TargetSaturation(data) == 40 * Scale + (data.energy * 60 * Scale) \div FeatDen
TargetBrightness(data) == 30 * Scale + (data.spectralCentroid * 40 * Scale) \div FeatDen

\* smooth with the difference taken the wrong way round.
SmoothAway(current, target) == current + RoundDiv((current - target) * smoothingFactor, 10)

\* smooth with a factor above one, overshooting the target.
SmoothOvershoot(current, target) == current + RoundDiv((target - current) * 13, 10)

\* smooth(current, target, factor)
Smooth(current, target) == current + RoundDiv((target - current) * smoothingFactor, 10)

\* The colorCustomizations record processAudioData builds from the smoothed
\* hue, saturation and lightness and the frame's isBeat.
Palette(hue, sat, bri, isBeat) ==
    LET baseColor == TinyColor(hue, sat, bri)
        beatBoost == IF isBeat THEN 15 ELSE 0
        editorBg == ToHexString(Darken(baseColor, 25 - beatBoost))
        sidebarBg == ToHexString(Spin(Darken(baseColor, 30), 30))
        accentColor == ToHexString(Saturate(Lighten(baseColor, 20 + beatBoost), 20))
        selectionBg == ToHexString(SetAlpha(baseColor, 3))
        complementary == Spin(baseColor, 180)
        highlightColor == ToHexString(Lighten(complementary, 30 + beatBoost))
        analogous1 == Lighten(Spin(baseColor, 30), 10)
        analogous2 == Lighten(Spin(baseColor, -30), 10)
    IN  [k \in PaletteKeys |->
          CASE k = "editor.background" -> editorBg
            [] k = "editor.selectionBackground" -> selectionBg
            [] k = "editor.lineHighlightBackground" ->
                   ToHexString(SetAlpha(Darken(baseColor, 20), 1))
            [] k = "editorCursor.foreground" -> accentColor
            [] k = "editor.findMatchHighlightBackground" -> highlightColor
            [] k = "sideBar.background" -> sidebarBg
            [] k = "sideBarSectionHeader.background" -> ToHexString(Darken(baseColor, 35))
            [] k = "activityBar.background" -> ToHexString(Darken(baseColor, 35))
            [] k = "activityBar.activeBorder" -> accentColor
            [] k = "activityBar.foreground" -> accentColor
            [] k = "statusBar.background" ->
                   IF isBeat THEN accentColor ELSE ToHexString(Darken(baseColor, 30))
            [] k = "statusBar.foreground" ->
                   IF isBeat THEN Hex(0, 0, 0) ELSE ToHexString(Lighten(baseColor, 40))
            [] k = "terminal.ansiBlue" -> ToHexString(analogous1)
            [] k = "terminal.ansiMagenta" -> ToHexString(analogous2)
            [] k = "terminal.ansiCyan" -> ToHexString(Lighten(baseColor, 20))
            [] k = "chat.requestBackground" ->
                   ToHexString(SetAlpha(Darken(baseColor, 20), 2))
            [] k = "chat.slashCommandBackground" -> [accentColor EXCEPT !.aa = "33"]
            [] k = "notificationCenter.border" -> accentColor
            [] k = "notifications.background" -> sidebarBg
            [] k = "list.activeSelectionBackground" -> ToHexString(Darken(baseColor, 15))
            [] k = "list.hoverBackground" ->
                   ToHexString(SetAlpha(Darken(baseColor, 22), 5))
            [] OTHER -> accentColor]   \* list.focusOutline

\* activate()
Activate ==
    IF isActive
    THEN UNCHANGED <<isActive, baseColors>>
    ELSE /\ isActive' = TRUE
         /\ baseColors' = CaptureBaseColors(customizations)

\* deactivate()
Deactivate ==
    IF ~isActive
    THEN UNCHANGED <<isActive, customizations>>
    ELSE /\ isActive' = FALSE
         /\ customizations' = RestoreBaseColors(baseColors)

\* The beat boost added to the retained lightness instead of the derived colours.
SmoothedBoosted(data) ==
    [hue |-> Smooth(lastHue, TargetHue(data)),
     sat |-> Smooth(lastSaturation, TargetSaturation(data)),
     bri |-> Smooth(lastBrightness, TargetBrightness(data))
             + (IF data.isBeat THEN 15 * Scale ELSE 0)]

\* The smoothing state processAudioData(data) retains, from the current one.
Smoothed(data) ==
    [hue |-> Smooth(lastHue, TargetHue(data)),
     sat |-> Smooth(lastSaturation, TargetSaturation(data)),
     bri |-> Smooth(lastBrightness, TargetBrightness(data))]

\* processAudioData without the isActive test.
ProcessAlways(data) ==
    /\ lastHue' = Smoothed(data).hue
    /\ lastSaturation' = Smoothed(data).sat
    /\ lastBrightness' = Smoothed(data).bri
    /\ customizations' = Palette(lastHue', lastSaturation', lastBrightness', data.isBeat)
    /\ fed' = Append(fed, data)

\* processAudioData(data)
ProcessAudioData(data) ==
    IF ~isActive
    THEN UNCHANGED <<lastHue, lastSaturation, lastBrightness, customizations, fed>>
    ELSE /\ lastHue' = Smoothed(data).hue
         /\ lastSaturation' = Smoothed(data).sat
         /\ lastBrightness' = Smoothed(data).bri
         /\ customizations' = Palette(lastHue', lastSaturation', lastBrightness', data.isBeat)
         /\ fed' = Append(fed, data)

\* --------------------------------------------------- audio player webview
\* if (beatDetector.history.length > 43)
HistoryCap == 43
\* beatDetector.threshold = 1.3, in tenths.
threshold == 13
\* const UPDATE_INTERVAL = 20 (ms)
UPDATE_INTERVAL == 20
\* if (bpm >= 60 && bpm <= 200)
BpmMin == 60
BpmMax == 200

RECURSIVE Sum(_)
Sum(s) == IF s = <<>> THEN 0 ELSE Head(s) + Sum(Tail(s))

\* The push with the newest sample dropped on overflow (pop for shift).
PushEnergyPop(h, energy) ==
    LET pushed == Append(h, energy)
    IN  IF Len(pushed) > HistoryCap THEN SubSeq(pushed, 1, Len(pushed) - 1) ELSE pushed

\* beatDetector.history.push(energy); if (length > 43) history.shift()
PushEnergy(h, energy) ==
    LET pushed == Append(h, energy)
    IN  IF Len(pushed) > HistoryCap THEN Tail(pushed) ELSE pushed

\* The mean taken over the full window whatever the number of samples.
IsBeatFullWindow(h, energy) ==
    energy * HistoryCap * 10 > Sum(h) * threshold

\* energy > avgEnergy * threshold, avgEnergy = sum / length.  With an empty
\* history the mean is 0 / 0 = NaN and every comparison with NaN is false.
IsBeat(h, energy) ==
    IF Len(h) = 0
    THEN FALSE
    ELSE energy * Len(h) * 10 > Sum(h) * threshold

\* Math.round(60 / interval), interval = ms / 1000.  -1 stands for Infinity
\* (ms = 0).
BpmOf(ms) == IF ms = 0 THEN -1 ELSE (2 * 60000 + ms) \div (2 * ms)

\* updateInfoDisplay without the upper end of the tempo band.
UpdateInfoDisplayNoMax(isBeat, t) ==
    IF ~isBeat
    THEN <<bpmText, lastBeat>>
    ELSE LET bpm == BpmOf(t - lastBeat)
         IN  <<IF lastBeat > 0 /\ bpm >= BpmMin THEN bpm ELSE bpmText, t>>

\* updateInfoDisplay(features): the BPM part.  The pair <<text of #bpm,
\* beatDetector.lastBeat>> after the call at time t.
UpdateInfoDisplay(isBeat, t) ==
    IF ~isBeat
    THEN <<bpmText, lastBeat>>
    ELSE LET bpm == BpmOf(t - lastBeat)
         IN  <<IF lastBeat > 0 /\ bpm >= BpmMin /\ bpm <= BpmMax THEN bpm ELSE bpmText,
               t>>

\* fileInput 'change': a new, paused audio element.
FileSelect ==
    /\ audioLoaded' = TRUE
    /\ playing' = FALSE
    /\ lastOp' = "fileSelect"
    /\ UNCHANGED libVars
    /\ UNCHANGED <<ctlVars, customizations, reactiveChecked, history, lastBeat,
                   bpmText, lastUpdateTime, now, inbox, sessionStart, fed, trace, beats>>

\* playBtn 'click'
PlayClick ==
    /\ audioLoaded
    /\ playing' = TRUE
    /\ lastOp' = "play"
    /\ UNCHANGED libVars
    /\ UNCHANGED <<ctlVars, customizations, audioLoaded, reactiveChecked, history,
                   lastBeat, bpmText, lastUpdateTime, now, inbox, sessionStart, fed,
                   trace, beats>>

\* pauseBtn 'click'
PauseClick ==
    /\ audioLoaded
    /\ playing' = FALSE
    /\ lastOp' = "pause"
    /\ UNCHANGED libVars
    /\ UNCHANGED <<ctlVars, customizations, audioLoaded, reactiveChecked, history,
                   lastBeat, bpmText, lastUpdateTime, now, inbox, sessionStart, fed,
                   trace, beats>>

\* stopBtn 'click'
StopClick ==
    /\ audioLoaded
    /\ playing' = FALSE
    /\ lastOp' = "stop"
    /\ UNCHANGED libVars
    /\ UNCHANGED <<ctlVars, customizations, audioLoaded, reactiveChecked, history,
                   lastBeat, bpmText, lastUpdateTime, now, inbox, sessionStart, fed,
                   trace, beats>>

\* The user switches the 'Audio-Reactive Theme' checkbox.
ToggleClick ==
    /\ reactiveChecked' = ~reactiveChecked
    /\ lastOp' = "toggle"
    /\ UNCHANGED libVars
    /\ UNCHANGED <<ctlVars, customizations, audioLoaded, playing, history, lastBeat,
                   bpmText, lastUpdateTime, now, inbox, sessionStart, fed, trace, beats>>

\* draw(timestamp), dt ms after the previous draw, for a spectrum whose
\* energy, spectral centroid and dominant frequency are f's.
\* analyzeAudioFeatures, updateInfoDisplay and the postMessage are part of it.
Draw(f, dt) ==
    /\ audioLoaded /\ playing
    /\ now' = now + dt
    /\ lastOp' = "draw"
    /\ UNCHANGED libVars
    /\ IF now' - lastUpdateTime >= UPDATE_INTERVAL
       THEN LET h == PushEnergy(history, f.energy)
                isBeat == IsBeat(h, f.energy)
                shown == UpdateInfoDisplay(isBeat, now')
            IN  /\ history' = h
                /\ bpmText' = shown[1]
                /\ lastBeat' = shown[2]
                /\ trace' = Append(trace, f.energy)
                /\ beats' = Append(beats, isBeat)
                /\ IF reactiveChecked
                   THEN /\ Len(inbox) < MaxInFlight
                        /\ inbox' = Append(inbox,
                               [dominantFreq |-> f.dominantFreq, energy |-> f.energy,
                                spectralCentroid |-> f.spectralCentroid,
                                isBeat |-> isBeat])
                   ELSE UNCHANGED inbox
                /\ lastUpdateTime' = now'
       ELSE UNCHANGED <<history, bpmText, lastBeat, trace, beats, inbox, lastUpdateTime>>
    /\ UNCHANGED <<ctlVars, customizations, audioLoaded, playing, reactiveChecked,
                   sessionStart, fed>>

\* ------------------------------------------- webview script: mel filterbank
\* Fractions.  The script computes weights, averages and ratios in doubles;
\* the model carries them as exact fractions n/d in lowest terms, and 0/0 as
\* NaN, which every arithmetic operation propagates and every comparison
\* answers with false.
RECURSIVE GCD(_, _)
GCD(a, b) == IF b = 0 THEN a ELSE GCD(b, a % b)

Q(n, d) ==
    LET g == GCD(Abs(n), Abs(d))
        sgn == IF d < 0 THEN -1 ELSE 1
    IN  [n |-> sgn * (n \div g), d |-> sgn * (d \div g), nan |-> FALSE]

NaN == [n |-> 0, d |-> 1, nan |-> TRUE]

Zero == Q(0, 1)

\* a / b for numbers a, b of the script; 0 / 0 is NaN.
Div(a, b) == IF b = 0 THEN NaN ELSE Q(a, b)

QAdd(x, y) == IF x.nan \/ y.nan THEN NaN ELSE Q(x.n * y.d + y.n * x.d, x.d * y.d)
QTimes(k, x) == IF x.nan THEN NaN ELSE Q(k * x.n, x.d)
QOver(x, k) == IF x.nan THEN NaN ELSE Div(x.n, x.d * k)
QGt(x, y) == ~x.nan /\ ~y.nan /\ x.n * y.d > y.n * x.d

RECURSIVE Pow(_, _)
Pow(a, n) == IF n = 0 THEN 1 ELSE a * Pow(a, n - 1)

\* hzToMel(hz) = 2595 * log10(1 + hz / 700), melToHz its inverse.
MelBreak == 700

\* Mel point k of a filterbank (k = 0 .. numFilters + 1) lies at
\* melToHz(minMel + k * melStep), that is 700 * (R^(k / m) - 1) Hz with
\* R = 1 + sampleRate / 1400 and m = numFilters + 1.  It reaches bin b, of
\* width sampleRate / fftSize, iff
\*     (fftSize + b * sampleRate / 700)^m * 2^k <= (2 + sampleRate / 700)^k * fftSize^m.
\* Sample rates are multiples of 700 Hz.
ReachesBin(k, b, cfg) ==
    LET m == cfg.numFilters + 1
        r == cfg.sampleRate \div MelBreak
    IN  Pow(cfg.fftSize + b * r, m) * Pow(2, k) <= Pow(2 + r, k) * Pow(cfg.fftSize, m)

OnBinEdge(k, b, cfg) ==
    LET m == cfg.numFilters + 1
        r == cfg.sampleRate \div MelBreak
    IN  Pow(cfg.fftSize + b * r, m) * Pow(2, k) = Pow(2 + r, k) * Pow(cfg.fftSize, m)

\* Math.floor(hz / (sampleRate / fftSize)) for mel point k.  No point lies
\* above sampleRate / 2, so no bin above fftSize / 2 is reached.  A point
\* that lies exactly on the edge of bin b > 0 is computed through log10 and
\* pow, whose rounding can leave it on either side of the edge.
MelBins(k, cfg) ==
    LET b == CHOOSE x \in 0..(cfg.fftSize \div 2) :
                 /\ ReachesBin(k, x, cfg)
                 /\ \A y \in (x + 1)..(cfg.fftSize \div 2) : ~ReachesBin(k, y, cfg)
    IN  IF b > 0 /\ OnBinEdge(k, b, cfg) THEN {b - 1, b} ELSE {b}

\* createMelFilterbank with leftBin and rightBin exchanged.
CreateMelFilterbankSwapped(cfg) ==
    IF cfg.numFilters < 1
    THEN {<<>>}
    ELSE LET n == cfg.numFilters
             bins == [k \in 0..(n + 1) |-> MelBins(k, cfg)]
             points == {p \in [0..(n + 1) -> 0..(cfg.fftSize \div 2)] :
                           \A k \in 0..(n + 1) : p[k] \in bins[k]}
         IN  {[i \in 1..n |-> [leftBin |-> p[i + 1], centerBin |-> p[i],
                               rightBin |-> p[i - 1]]] : p \in points}

\* createMelFilterbank(numFilters, fftSize, sampleRate): the filter lists it
\* can return.
CreateMelFilterbank(cfg) ==
    IF cfg.numFilters < 1
    THEN {<<>>}
    ELSE LET n == cfg.numFilters
             bins == [k \in 0..(n + 1) |-> MelBins(k, cfg)]
             points == {p \in [0..(n + 1) -> 0..(cfg.fftSize \div 2)] :
                           \A k \in 0..(n + 1) : p[k] \in bins[k]}
         IN  {[i \in 1..n |-> [leftBin |-> p[i - 1], centerBin |-> p[i],
                               rightBin |-> p[i + 1]]] : p \in points}

\* The triangular weight of bin in filter (applyMelFilterbank, inner loop).
Weight(bin, filter) ==
    IF bin < filter.centerBin
    THEN Div(bin - filter.leftBin, filter.centerBin - filter.leftBin)
    ELSE Div(filter.rightBin - bin, filter.rightBin - filter.centerBin)

RECURSIVE FilterLoop(_, _, _, _, _)
\* sum and count of the inner loop after the bins from..filter.rightBin.
FilterLoop(fftData, filter, from, sum, count) ==
    IF from > filter.rightBin
    THEN <<sum, count>>
    ELSE IF from < Len(fftData)
         THEN FilterLoop(fftData, filter, from + 1,
                         QAdd(sum, QTimes(fftData[from + 1], Weight(from, filter))),
                         count + 1)
         ELSE FilterLoop(fftData, filter, from + 1, sum, count)

\* applyMelFilterbank(fftData, filterbank); fftData[bin] of the script is
\* fftData[bin + 1] here.
ApplyMelFilterbank(fftData, filterbank) ==
    [i \in 1..Len(filterbank) |->
        LET acc == FilterLoop(fftData, filterbank[i], filterbank[i].leftBin, Zero, 0)
        IN  IF acc[2] > 0 THEN QOver(acc[1], acc[2]) ELSE Zero]

\* The sum of squares, and the sum from index from on, of a byte spectrum.
RECURSIVE SumSq(_)
SumSq(d) == IF d = <<>> THEN 0 ELSE Head(d) * Head(d) + SumSq(Tail(d))

SumFrom(d, from) == Sum(SubSeq(d, from, Len(d)))

\* Math.sqrt(energy / frequencyData.length) / 255 in hundredths, rounded down
\* (the unit of beatDetector.history in this model): the largest e with
\* (255 e)^2 * length <= 100^2 * sum of squares.
EnergyOf(d) ==
    CHOOSE e \in 0..FeatDen :
        /\ Pow(51 * e, 2) * Len(d) <= Pow(20, 2) * SumSq(d)
        /\ e < FeatDen => Pow(51 * (e + 1), 2) * Len(d) > Pow(20, 2) * SumSq(d)

\* x / y of two fractions.
QQuot(x, y) == IF x.nan \/ y.nan THEN NaN ELSE Div(x.n * y.d, x.d * y.n)

\* weightedSum and sum of the spectral centroid loop from index i on (0-based).
RECURSIVE CentroidLoop(_, _, _, _)
CentroidLoop(mel, i, weightedSum, sum) ==
    IF i >= Len(mel)
    THEN <<weightedSum, sum>>
    ELSE CentroidLoop(mel, i + 1, QAdd(weightedSum, QTimes(i, mel[i + 1])),
                      QAdd(sum, mel[i + 1]))

\* maxBin of the dominant frequency loop from index i on (0-based).
RECURSIVE MaxBinLoop(_, _, _, _)
MaxBinLoop(mel, i, maxBin, maxValue) ==
    IF i >= Len(mel)
    THEN maxBin
    ELSE IF QGt(mel[i + 1], maxValue)
         THEN MaxBinLoop(mel, i + 1, i, mel[i + 1])
         ELSE MaxBinLoop(mel, i + 1, maxBin, maxValue)

\* analyzeAudioFeatures without the sum > 0 test of the spectral centroid.
AnalyzeAudioFeaturesUnguarded(data, mel, hist) ==
    LET energy == EnergyOf(data)
        highFreqStart == (Len(data) * 6) \div 10
        acc == CentroidLoop(mel, 0, Zero, Zero)
    IN  [dominantFreq |-> Div(MaxBinLoop(mel, 0, 0, Zero), Len(mel)),
         energy |-> energy,
         spectralCentroid |-> QOver(QQuot(acc[1], acc[2]), Len(mel)),
         isBeat |-> IsBeat(PushEnergy(hist, energy), energy),
         brightness |-> Div(SumFrom(data, highFreqStart + 1),
                            (Len(data) - highFreqStart) * 255)]

\* analyzeAudioFeatures(frequencyData, melSpectrum) with beatDetector.history
\* = hist before the call: the features returned.  The history after the
\* call is PushEnergy(hist, energy).
AnalyzeAudioFeatures(data, mel, hist) ==
    LET energy == EnergyOf(data)
        highFreqStart == (Len(data) * 6) \div 10
        acc == CentroidLoop(mel, 0, Zero, Zero)
    IN  [dominantFreq |-> Div(MaxBinLoop(mel, 0, 0, Zero), Len(mel)),
         energy |-> energy,
         spectralCentroid |->
             IF QGt(acc[2], Zero)
             THEN QOver(QQuot(acc[1], acc[2]), Len(mel))
             ELSE Zero,
         isBeat |-> IsBeat(PushEnergy(hist, energy), energy),
         brightness |-> Div(SumFrom(data, highFreqStart + 1),
                            (Len(data) - highFreqStart) * 255)]

\* -------------------------------------------- colour functions (groups.ts)
\* interpolateHue without the choice of the shorter arc.
InterpolateHueDirect(start, end, pct) ==
    LET r0 == start + RoundDiv((end - start) * pct, 100)
        r1 == IF r0 < 0 THEN r0 + 360 * Scale ELSE r0
    IN  IF r1 >= 360 * Scale THEN r1 - 360 * Scale ELSE r1

\* AdvancedColorOps.interpolateHue(start, end, t) with t = pct / 100.
InterpolateHue(start, end, pct) ==
    LET d0 == end - start
        diff == IF d0 > 180 * Scale THEN d0 - 360 * Scale
                ELSE IF d0 < -180 * Scale THEN d0 + 360 * Scale
                ELSE d0
        r0 == start + RoundDiv(diff * pct, 100)
        r1 == IF r0 < 0 THEN r0 + 360 * Scale ELSE r0
    IN  IF r1 >= 360 * Scale THEN r1 - 360 * Scale ELSE r1

\* AdvancedColorOps.adjustTemperature(color, amount)
AdjustTemperature(color, amount) ==
    LET c == TinyColorOf(color)
        targetHue == IF amount > 0
                     THEN InterpolateHue(c.h, 30 * Scale, amount)
                     ELSE InterpolateHue(c.h, 210 * Scale, Abs(amount))
    IN  IF ~IsValid(c)
        THEN Null
        ELSE ToHexString(TinyColor(targetHue, c.s, c.l))

\* tinycolor's getLuminance (WCAG relative luminance) of a grey, times 10^5,
\* for the lightness 0%, 5%, .., 100%.  The luminance of other colours is
\* not modelled.
GreyLuminance ==
    << 0, 394, 1002, 1961, 3310, 5088, 7324, 10048, 13287, 17064, 21404,
       26327, 31855, 38006, 44799, 52252, 60383, 69207, 78741, 89001, 100000 >>

GetLuminance(c) == GreyLuminance[c.l \div (5 * Scale) + 1]

\* tinycolor.readability(c1, c2) >= ratio, the ratio given in tenths.
ReadabilityReaches(c1, c2, tenths) ==
    LET lighter == Max(GetLuminance(c1), GetLuminance(c2))
        darker == Min(GetLuminance(c1), GetLuminance(c2))
    IN  (lighter + 5000) * 10 >= tenths * (darker + 5000)

\* getPerceivedBrightness(bg.toHexString()) > 0.5, for a grey.
IsLightBackground(bg) == bg.l > 50 * Scale

\* The number of adjustments ensureReadability makes at most.
MaxAttempts == 100

\* ensureReadability with the direction of the adjustment inverted.
RECURSIVE ReadabilityLoopInverted(_, _, _, _)
ReadabilityLoopInverted(current, bg, tenths, attempts) ==
    IF attempts >= MaxAttempts
    THEN ToHexString(current)
    ELSE IF ReadabilityReaches(current, bg, tenths)
         THEN ToHexString(current)
         ELSE ReadabilityLoopInverted(
                  IF IsLightBackground(bg) THEN Lighten(current, 5) ELSE Darken(current, 5),
                  bg, tenths, attempts + 1)

\* The while loop of ensureReadability from the given candidate and count.
RECURSIVE ReadabilityLoop(_, _, _, _)
ReadabilityLoop(current, bg, tenths, attempts) ==
    IF attempts >= MaxAttempts
    THEN ToHexString(current)
    ELSE IF ReadabilityReaches(current, bg, tenths)
         THEN ToHexString(current)
         ELSE ReadabilityLoop(
                  IF IsLightBackground(bg) THEN Darken(current, 5) ELSE Lighten(current, 5),
                  bg, tenths, attempts + 1)

\* AdvancedColorOps.ensureReadability(foreground, background, targetRatio),
\* the target ratio in tenths.
EnsureReadability(foreground, background, tenths) ==
    LET fg == TinyColorOf(foreground)
        bg == TinyColorOf(background)
    IN  IF ~IsValid(fg) \/ ~IsValid(bg)
        THEN foreground
        ELSE ReadabilityLoop(fg, bg, tenths, 0)

\* A colour string "#rrggbb" by its channels, for the functions that work
\* on the channels.
Rgb(r, g, b) == [red |-> r, green |-> g, blue |-> b]

\* tinycolor(string) by channels.
TinyRgbOf(str) ==
    IF "text" \in DOMAIN str
    THEN [ok |-> FALSE, red |-> 0, green |-> 0, blue |-> 0]
    ELSE [ok |-> TRUE, red |-> str.red, green |-> str.green, blue |-> str.blue]

\* tinycolor.mix(c1, c2, amount).toHexString() for amount = 100 * num / den:
\* each channel is (c2 - c1) * p + c1, rounded by toHexString.
MixHex(c1, c2, num, den) ==
    Rgb(c1.red + RoundDiv((c2.red - c1.red) * num, den),
        c1.green + RoundDiv((c2.green - c1.green) * num, den),
        c1.blue + RoundDiv((c2.blue - c1.blue) * num, den))

\* generateGradient with amount = i / steps.
GenerateGradientOpen(startColor, endColor, steps) ==
    LET start == TinyRgbOf(startColor)
        end == TinyRgbOf(endColor)
    IN  IF ~IsValid(start) \/ ~IsValid(end) \/ steps < 2
        THEN <<>>
        ELSE [i \in 1..steps |-> MixHex(start, end, i - 1, steps)]

\* AdvancedColorOps.generateGradient(startColor, endColor, steps); element
\* i + 1 here is gradient[i] of the code.
GenerateGradient(startColor, endColor, steps) ==
    LET start == TinyRgbOf(startColor)
        end == TinyRgbOf(endColor)
    IN  IF ~IsValid(start) \/ ~IsValid(end) \/ steps < 2
        THEN <<>>
        ELSE [i \in 1..steps |-> MixHex(start, end, i - 1, steps - 1)]

\* The steps the generateGradient tool uses when args.steps is 0 or missing.
DefaultSteps == 10

\* CallTool handler, case 'generateGradient': an error or the gradient.
GenerateGradientTool(startColor, endColor, steps) ==
    LET gradient == GenerateGradient(startColor, endColor,
                                     IF steps = 0 THEN DefaultSteps ELSE steps)
    IN  IF Len(gradient) = 0
        THEN [error |-> "Invalid colors or steps"]
        ELSE [colors |-> gradient]

\* --------------------------------- ColorManipulator (colors/manipulation.ts)
\* tinycolor's brighten(amount) on the channels:
\* max(0, min(255, c - Math.round(255 * -(amount / 100)))).
Brighten(c, amount) ==
    [c EXCEPT !.red = Clamp(c.red - RoundDiv(-255 * amount, 100), 0, 255),
              !.green = Clamp(c.green - RoundDiv(-255 * amount, 100), 0, 255),
              !.blue = Clamp(c.blue - RoundDiv(-255 * amount, 100), 0, 255)]

\* tinycolor's darken(amount) on the channels of a grey (red = green = blue),
\* whose lightness is its channel over 255: the lightness less amount / 100,
\* clamped, and rounded back to a channel by toHexString.
DarkenGrey(c, amount) ==
    LET v == Clamp(RoundDiv(100 * c.red - 255 * amount, 100), 0, 255)
    IN  [c EXCEPT !.red = v, !.green = v, !.blue = v]

\* toHexString of a colour held by channels.
ToHexRgb(c) == Rgb(c.red, c.green, c.blue)

\* ColorManipulator.adjustBrightness(color, amount), for greys.
AdjustBrightness(color, amount) ==
    LET tc == TinyRgbOf(color)
    IN  IF amount > 0
        THEN ToHexRgb(Brighten(tc, amount))
        ELSE ToHexRgb(DarkenGrey(tc, Abs(amount)))

\* ColorManipulator.adjustSaturation(color, amount); desaturate(n) is
\* saturate(-n).
AdjustSaturation(color, amount) ==
    LET tc == TinyColorOf(color)
    IN  IF amount > 0
        THEN ToHexString(Saturate(tc, amount))
        ELSE ToHexString(Saturate(tc, -Abs(amount)))

\* ColorManipulator.shiftHue(color, degrees)
ShiftHue(color, degrees) == ToHexString(Spin(TinyColorOf(color), degrees))

\* ColorManipulator.getComplementary(color): complement() is a half turn.
GetComplementary(color) == ToHexString(Spin(TinyColorOf(color), 180))

\* ColorManipulator.getAnalogous(color): tinycolor's analogous() with its
\* defaults (6 results, 30 slices) is the colour itself and then the hues
\* 24 and 12 below it, its own hue, and 12 and 24 above it.
GetAnalogous(color) ==
    LET tc == TinyColorOf(color)
    IN  <<ToHexString(tc), ToHexString(Spin(tc, -24)), ToHexString(Spin(tc, -12)),
          ToHexString(Spin(tc, 0)), ToHexString(Spin(tc, 12)),
          ToHexString(Spin(tc, 24))>>

\* ColorManipulator.mix(color1, color2, amount)
Mix(color1, color2, amount) == MixHex(TinyRgbOf(color1), TinyRgbOf(color2), amount, 100)

\* The turns of each harmony of generateHarmony, after the base colour.
HarmonySpins ==
    [complementary |-> <<180>>,
     analogous |-> <<30, -30, 60, -60>>,
     triadic |-> <<120, 240>>,
     tetradic |-> <<90, 180, 270>>,
     splitComplementary |-> <<150, 210>>,
     square |-> <<90, 180, 270>>]

\* AdvancedColorOps.generateHarmony(baseColor, type): null for an invalid
\* base colour, otherwise the harmony's name (here its type) and colours.
GenerateHarmony(baseColor, type) ==
    LET color == TinyColorOf(baseColor)
        spins == HarmonySpins[type]
    IN  IF ~IsValid(color)
        THEN Null
        ELSE [colors |-> <<ToHexString(color)>> \o
                         [i \in 1..Len(spins) |-> ToHexString(Spin(color, spins[i]))],
              name |-> type]

\* ------------------------------------- the bridge (vscode/config.ts, bridge/)
\* The empty string as a colour value, and JavaScript's undefined.
EmptyString == [text |-> ""]
Undefined == [undefined |-> TRUE]

\* Entries of configLog: this.config.get(..) and this.config.update(..).
Get == [op |-> "get"]
Update(target) == [target |-> target, op |-> "update"]

\* What a call did: the error it threw ("" for none), the value it returned,
\* the colour customizations it left and the configuration calls it made.
Outcome(error, value, colors, log) ==
    [error |-> error, colors |-> colors, value |-> value, log |-> log]

\* colors[key] = value
WithColor(colors, key, value) ==
    [k \in DOMAIN colors \cup {key} |-> IF k = key THEN value ELSE colors[k]]

\* { ...currentColors, ...newColors }
Merged(currentColors, newColors) ==
    [k \in DOMAIN currentColors \cup DOMAIN newColors |->
        IF k \in DOMAIN newColors THEN newColors[k] ELSE currentColors[k]]

\* delete colors[key]
WithoutColor(colors, key) == [k \in DOMAIN colors \ {key} |-> colors[k]]

\* this.config.update('colorCustomizations', newColors, target) after the
\* configuration calls in log; the promise is rejected when rejects.
ConfigUpdate(colors, newColors, target, log, rejects) ==
    IF rejects
    THEN Outcome("Unable to write to settings", Undefined, colors,
                 Append(log, Update(target)))
    ELSE Outcome("", [success |-> TRUE], newColors, Append(log, Update(target)))

\* BridgeServer.mapConfigurationTarget(params.target)
MapConfigurationTarget(params) ==
    IF "target" \in DOMAIN params /\ params.target \in {"Workspace", "WorkspaceFolder"}
    THEN params.target
    ELSE "Global"

\* !params?.field: the field is missing or empty.  Undefined params are the
\* params without fields.
Missing(params, field, empty) == field \notin DOMAIN params \/ params[field] = empty

\* BridgeServer.callMethod(method, params) with the VSCodeConfig method it
\* calls, on the colour customizations colors.
CallMethod(method, params, colors, rejects) ==
    CASE method = "getCurrentColors" -> Outcome("", colors, colors, <<Get>>)
      [] method = "getColor" ->
            IF Missing(params, "key", "")
            THEN Outcome("Missing required parameter: key", Undefined, colors, <<>>)
            ELSE Outcome("",
                         IF params.key \in DOMAIN colors THEN colors[params.key]
                         ELSE Undefined,
                         colors, <<Get>>)
      [] method = "setColor" ->
            IF Missing(params, "key", "") \/ Missing(params, "value", EmptyString)
            THEN Outcome("Missing required parameters: key, value", Undefined, colors, <<>>)
            ELSE ConfigUpdate(colors, WithColor(colors, params.key, params.value),
                              MapConfigurationTarget(params), <<Get>>, rejects)
      [] method = "setColors" ->
            IF "colors" \notin DOMAIN params
            THEN Outcome("Missing required parameter: colors", Undefined, colors, <<>>)
            ELSE ConfigUpdate(colors, Merged(colors, params.colors),
                              MapConfigurationTarget(params), <<Get>>, rejects)
      [] method = "resetColor" ->
            IF Missing(params, "key", "")
            THEN Outcome("Missing required parameter: key", Undefined, colors, <<>>)
            ELSE ConfigUpdate(colors, WithoutColor(colors, params.key),
                              MapConfigurationTarget(params), <<Get>>, rejects)
      [] method = "resetAllColors" ->
            ConfigUpdate(colors, EmptyMap, MapConfigurationTarget(params), <<>>, rejects)
      [] OTHER -> Outcome("Unknown bridge method", Undefined, colors, <<>>)

\* handleRequest answering every request under the first request's id.
HandleRequestFirstId(request, colors, rejects) ==
    LET out == CallMethod(request.method, request.params, colors, rejects)
    IN  IF out.error # ""
        THEN Outcome("", [error |-> out.error, id |-> <<"req", 0>>], out.colors, out.log)
        ELSE Outcome("", [result |-> out.value, id |-> <<"req", 0>>], out.colors, out.log)

\* BridgeServer.handleRequest(request): the outcome's value is the response.
HandleRequest(request, colors, rejects) ==
    LET out == CallMethod(request.method, request.params, colors, rejects)
    IN  IF out.error # ""
        THEN Outcome("", [error |-> out.error, id |-> request.id], out.colors, out.log)
        ELSE Outcome("", [result |-> out.value, id |-> request.id], out.colors, out.log)

\* BridgeClient.call(method, params) answered by the bridge server: the id
\* is req-n, an error response rejects, another resolves with its result.
BridgeCall(n, method, params, colors, rejects) ==
    LET out == HandleRequest([params |-> params,
                              method |-> method,
                              id |-> <<"req", n>>],
                             colors, rejects)
    IN  IF "error" \in DOMAIN out.value
        THEN Outcome(out.value.error, Undefined, out.colors, out.log)
        ELSE Outcome("", out.value.result, out.colors, out.log)

\* ColorManipulator.isValidColor(color): tinycolor(color).isValid()
IsValidColor(color) == "h" \in DOMAIN color

\* args.value, undefined when the arguments have none.
ValueOf(a) == IF "value" \in DOMAIN a THEN a.value ELSE Undefined

\* The fields of the tool's arguments that reach the bridge: JSON.stringify
\* drops the undefined ones.
Defined(a, fields) == [f \in DOMAIN a \cap fields |-> a[f]]

\* The setColor tool with the old value read before the value is validated.
SetColorToolReadFirst(a, colors, n, rejects) ==
    LET read == BridgeCall(n, "getColor", Defined(a, {"key"}), colors, rejects)
    IN  IF a = Undefined
        THEN [requestId |-> n,
              out |-> Outcome("Missing arguments for setColor", Undefined, colors, <<>>)]
        ELSE IF ~IsValidColor(ValueOf(a))
        THEN [requestId |-> n + 1,
              out |-> Outcome("Invalid color value", Undefined, colors, read.log)]
        ELSE [requestId |-> n + 1,
              out |-> Outcome(read.error, Undefined, colors, read.log)]

\* The setColor tool once bridge.setColor(key, value) has answered write.
SetColorToolAfterWrite(a, read, write, n) ==
    IF write.error # ""
    THEN [requestId |-> n + 2,
          out |-> Outcome(write.error, Undefined, write.colors, read.log \o write.log)]
    ELSE [requestId |-> n + 2,
          out |-> Outcome("",
                          [key |-> a.key,
                           success |-> TRUE,
                           oldValue |-> IF read.value = Undefined THEN Null
                                        ELSE read.value,
                           newValue |-> a.value],
                          write.colors, read.log \o write.log)]

\* The setColor tool once bridge.getColor(key) has answered read.
SetColorToolAfterRead(a, read, n, rejects) ==
    IF read.error # ""
    THEN [requestId |-> n + 1,
          out |-> Outcome(read.error, Undefined, read.colors, read.log)]
    ELSE SetColorToolAfterWrite(a, read,
                                BridgeCall(n + 1, "setColor",
                                           Defined(a, {"key", "value"}),
                                           read.colors, rejects),
                                n)

\* The standalone server's CallTool handler, case 'setColor', with the
\* bridge client's requestId n: the outcome and the requestId afterwards.
SetColorTool(a, colors, n, rejects) ==
    IF a = Undefined
    THEN [requestId |-> n,
          out |-> Outcome("Missing arguments for setColor", Undefined, colors, <<>>)]
    ELSE IF ~IsValidColor(ValueOf(a))
    THEN [requestId |-> n,
          out |-> Outcome("Invalid color value", Undefined, colors, <<>>)]
    ELSE SetColorToolAfterRead(a,
                               BridgeCall(n, "getColor", Defined(a, {"key"}), colors,
                                          rejects),
                               n, rejects)

\* ThemeMCPServer.handleSetColor(key, value), on VSCodeConfig directly.
HandleSetColor(a, colors, rejects) ==
    LET oldValue == IF a.key \in DOMAIN colors THEN colors[a.key] ELSE Undefined
        write == ConfigUpdate(colors, WithColor(colors, a.key, a.value), "Global",
                              <<Get, Get>>, rejects)
    IN  IF ~IsValidColor(ValueOf(a))
        THEN Outcome("Invalid color value", Undefined, colors, <<>>)
        ELSE IF write.error # ""
        THEN write
        ELSE Outcome("",
                     [key |-> a.key,
                      success |-> TRUE,
                      oldValue |-> oldValue,
                      newValue |-> a.value],
                     write.colors, write.log)

\* ------------------------------------- VSCodeConfig writes in flight
\* The most colour writes begun on one VSCodeConfig.
MaxWrites == 2

\* setColor, setColors or resetColor up to the call of config.update: the
\* customizations it read, changed as the method changes them, are passed to
\* the update, which has not completed.
BegunWrite(method, params, colors) ==
    [colors |-> IF method = "setColor" THEN WithColor(colors, params.key, params.value)
                ELSE IF method = "setColors" THEN Merged(colors, params.colors)
                ELSE WithoutColor(colors, params.key),
     params |-> params,
     method |-> method,
     completed |-> FALSE]

\* No write has begun.
InitWrites == writes = <<>>

\* ------------------------------------------- TerminalController (part_007)
\* The most terminals opened in one window.
MaxTerminals == 2

\* this.terminals.set(id, terminal)
MapSet(map, id, terminal) ==
    [i \in DOMAIN map \cup {id} |-> IF i = id THEN terminal ELSE map[i]]

\* this.terminals.delete(id)
MapDelete(map, id) == [i \in DOMAIN map \ {id} |-> map[i]]

\* Array.from(this.terminals.entries()).find(([_, t]) => t === terminal):
\* the ids registered for the terminal; the Map lists them in the order of
\* their insertion, which is the order of the ids.
IdsOf(map, terminal) == {i \in DOMAIN map : map[i] = terminal}
Least(S) == CHOOSE i \in S : \A j \in S : i <= j

\* The onDidCloseTerminal listener
OnDidCloseTerminal(map, terminal) ==
    IF IdsOf(map, terminal) # {}
    THEN MapDelete(map, Least(IdsOf(map, terminal)))
    ELSE map

\* The events terminal.dispose() causes: a close event when the terminal
\* is open.
Closing(open, disposed) ==
    [i \in 1..Cardinality(open \cap disposed) |->
        [type |-> "close",
         terminal |-> CHOOSE t \in open \cap disposed :
                         Cardinality({u \in open \cap disposed : u < t}) = i - 1]]

\* new TerminalController() in a window with n open terminals 1..n
InitTerminals(n) ==
    /\ terminals = [i \in 1..n |-> i]
    /\ nextId = n + 1
    /\ windowTerminals = 1..n
    /\ termEvents = <<>>
    /\ spawned = n

\* -------------------------------------- BridgeServer start and stop
\* The most HTTP servers created, and the ports the system has free.
MaxServers == 2
MaxPorts == 3

\* The ports of the servers that are listening.
Listening(all) == {all[i].port : i \in {j \in DOMAIN all : all[j].listening}}

\* BridgeServer.start(): a new HTTP server is created, assigned to this.server
\* and listens on the free port p the system gives it.
Start(all, p) == Append(all, [port |-> p, listening |-> TRUE])

\* BridgeServer.stop(): this.server, if any, is closed.
Stop(all, current) ==
    IF current # 0 THEN [all EXCEPT ![current].listening = FALSE] ELSE all

\* activate(): bridgeServer = new BridgeServer()
InitBridgeServer ==
    /\ bridgeServer = TRUE
    /\ servers = <<>>
    /\ server = 0
    /\ port = 0
    /\ handedOut = <<>>

\* --------------------------------------- VisualEffectsController (part_006)
\* The most effects started, calls of one interval's callback, and
\* milliseconds that pass.
MaxEffects == 2
MaxFires == 1
MaxClock == 1

\* colors[index % colors.length] of matrixRain: '#001100', '#003300', ...,
\* '#00ff00', with the two hex digits aa appended.
MatrixColour(index, aa) ==
    [h |-> 120 * Scale, s |-> 100 * Scale,
     l |-> ((2 * (index % 8) + 1) * 100 * Scale) \div 30, aa |-> aa]

\* setEditorBackground(color, intensity): the customizations it writes.
SetEditorBackground(index) ==
    [k \in {"editor.background", "editor.lineHighlightBackground"} |->
        IF k = "editor.background" THEN MatrixColour(index, "")
        ELSE MatrixColour(index, "40")]

\* `${effect}-${Date.now()}`
EffectId(effect, t) == <<effect, t>>

\* stopEffect(effectId): the timers left running and the Map left.
StopEffect(active, running, effectId) ==
    IF effectId \in DOMAIN active
    THEN [activeEffects |-> MapDelete(active, effectId),
          intervals |-> [h \in DOMAIN running \ {active[effectId]} |-> running[h]]]
    ELSE [activeEffects |-> active, intervals |-> running]

\* stopAllEffects(): stopEffect for every id of the Map.
StopAllEffects(active, running) ==
    [activeEffects |-> [id \in {} |-> 0],
     intervals |-> [h \in DOMAIN running \ {active[id] : id \in DOMAIN active} |->
                      running[h]]]

\* new VisualEffectsController()
InitEffects ==
    /\ activeEffects = [id \in {} |-> 0]
    /\ intervals = [h \in {} |-> 0]
    /\ dueStops = {}
    /\ clock = 0
    /\ started = 0
    /\ returned = <<>>

\* ----------------------------------------------- BridgeClient (client.ts)
\* The timeout call() uses when none is given, in milliseconds.
BRIDGE_REQUEST_TIMEOUT_MS == 30000

\* A promise that lets a later resolve or reject replace its outcome.
SettleAgain(call, state, value) ==
    [call EXCEPT !.promise = state, !.value = value, !.settled = @ + 1]

\* resolve(value) or reject(error) of the promise call() returned: the first
\* one settles the promise, later ones do nothing.
Settle(call, state, value) ==
    IF call.promise = "pending"
    THEN [call EXCEPT !.promise = state, !.value = value, !.settled = @ + 1]
    ELSE call

\* The response bodies: text that is no JSON, and the JSON of a response with
\* or without an error.
NoBody == [result |-> Undefined, error |-> "", parses |-> FALSE]
Body(error, value) == [result |-> value, error |-> error, parses |-> TRUE]

\* res.on('end'): the body is parsed and the promise rejected or resolved.
OnEnd(call, body) ==
    IF ~body.parses
    THEN Settle(call, "rejected", [error |-> "Invalid bridge response"])
    ELSE IF body.error # ""
         THEN Settle(call, "rejected", [error |-> body.error])
         ELSE Settle(call, "resolved", body.result)

\* req.on('error', reject)
OnError(call) == Settle(call, "rejected", [error |-> "connect ECONNREFUSED"])

\* req.on('timeout'): the request is destroyed and the promise rejected.
OnTimeout(call) ==
    Settle(call, "rejected",
           [error |-> "Bridge request timeout", waited |-> call.timeout])

\* call(method, params, timeout) up to the return of the promise.
NewCall(n, method, timeout) ==
    [value |-> Undefined,
     method |-> method,
     id |-> <<"req", n>>,
     promise |-> "pending",
     settled |-> 0,
     timeout |-> timeout,
     seen |-> {}]

\* new BridgeClient()
InitClient == calls = <<>>

\* ------------------------------------- ThemeHistoryManager (ThemeHistory.ts)
\* constructor(maxSize: number = 50)
DefaultMaxSize == 50

\* A ThemeSnapshot taken at time t.
Snapshot(colors, description, t) ==
    [colors |-> colors, description |-> description, timestamp |-> t]

\* The manager's history and currentIndex; index i of the code's array is
\* element i + 1 of the sequence.
Manager(h, i) == [history |-> h, currentIndex |-> i]

\* addSnapshot that keeps the snapshots after currentIndex.
AddSnapshotKeepingFuture(m, max, colors, description, t) ==
    LET pushed == Append(m.history, Snapshot(colors, description, t))
    IN  IF Len(pushed) > max
        THEN Manager(Tail(pushed), m.currentIndex)
        ELSE Manager(pushed, m.currentIndex + 1)

\* addSnapshot that never evicts.
AddSnapshotUncapped(m, max, colors, description, t) ==
    LET kept == IF m.currentIndex < Len(m.history) - 1
                THEN SubSeq(m.history, 1, m.currentIndex + 1)
                ELSE m.history
    IN  Manager(Append(kept, Snapshot(colors, description, t)), m.currentIndex + 1)

\* ThemeHistoryManager.addSnapshot(colors, description) on the manager m
\* with maxHistorySize max.
AddSnapshot(m, max, colors, description, t) ==
    LET kept == IF m.currentIndex < Len(m.history) - 1
                THEN SubSeq(m.history, 1, m.currentIndex + 1)
                ELSE m.history
        pushed == Append(kept, Snapshot(colors, description, t))
    IN  IF Len(pushed) > max
        THEN Manager(Tail(pushed), m.currentIndex)
        ELSE Manager(pushed, m.currentIndex + 1)

\* captureInitialState() on an empty manager.
CaptureInitialState(max, colors, t) ==
    AddSnapshot(Manager(<<>>, -1), max, colors, "Initial state", t)

\* canRedo() that never allows a redo.
CanRedoNever(m) == m.currentIndex < -1

\* canUndo() and canRedo()
CanUndo(m) == m.currentIndex > 0
CanRedo(m) == m.currentIndex < Len(m.history) - 1

\* history[i], undefined outside the array
SnapshotAt(h, i) == IF i + 1 \in DOMAIN h THEN h[i + 1] ELSE Undefined

\* applySnapshot(snapshot): reading snapshot.colors of undefined throws, and
\* config.update may reject
ApplySnapshot(snapshot, colors, rejects) ==
    IF "undefined" \in DOMAIN snapshot
    THEN [result |-> [error |-> "TypeError"], colors |-> colors]
    ELSE IF rejects
         THEN [result |-> [error |-> "Unable to write to settings"],
               colors |-> colors]
         ELSE [result |-> [value |-> TRUE], colors |-> snapshot.colors]

\* What JSON.parse(json) gives import(): nothing when json does not parse,
\* else the version, the history (a list or not) and the currentIndex (absent
\* or a number) of the parsed object.
NotJson == [parses |-> FALSE]
Parsed(version, isArray, h, hasIndex, i) ==
    [history |-> h,
     currentIndex |-> i,
     parses |-> TRUE,
     version |-> version,
     isArray |-> isArray,
     hasIndex |-> hasIndex]

\* ThemeHistoryManager.import(json) on the manager m
Import(m, data) ==
    IF ~data.parses
    THEN [value |-> FALSE, manager |-> m]
    ELSE IF data.version = 1 /\ data.isArray
         THEN [value |-> TRUE,
               manager |-> Manager(data.history,
                                   IF data.hasIndex THEN data.currentIndex
                                   ELSE Len(data.history) - 1)]
         ELSE [value |-> FALSE, manager |-> m]

\* new ThemeHistoryManager(maxSize)
InitThemeHistory(maxSize) ==
    /\ maxHistorySize = maxSize
    /\ themeHistory = CaptureInitialState(maxSize, customizations, now).history
    /\ currentIndex = CaptureInitialState(maxSize, customizations, now).currentIndex
    /\ discarded = 0

\* The other parts of the extension host after construction.
InitHostRest ==
    /\ InitClient
    /\ InitWrites
    /\ InitTerminals(0)
    /\ InitBridgeServer
    /\ InitEffects

InitHost == InitThemeHistory(DefaultMaxSize) /\ InitHostRest

\* ------------------------------------------------------------- extension
\* webview.onDidReceiveMessage, case 'audioAnalysis': onAudioData(payload),
\* which calls reactiveController.processAudioData(audioData).
OnDidReceiveMessage ==
    /\ inbox # <<>>
    /\ ~isActive \/ Len(fed) < MaxUpdates
    /\ ProcessAudioData(Head(inbox))
    /\ inbox' = Tail(inbox)
    /\ lastOp' = "audioAnalysis"
    /\ UNCHANGED libVars
    /\ UNCHANGED <<isActive, baseColors, audioLoaded, playing, reactiveChecked,
                   history, lastBeat, bpmText, lastUpdateTime, now, sessionStart,
                   trace, beats>>

\* VSCodeConfig.resetAllColors(): the customizations are replaced by {}.
ResetAllColors ==
    /\ customizations' = EmptyMap
    /\ lastOp' = "resetAllColors"
    /\ UNCHANGED libVars
    /\ UNCHANGED <<ctlVars, webVars, sessionStart, fed, trace, beats>>

\* ------------------------------------------- calls on the controller class
\* The frames a caller passes: in range, and out of range in either direction.
Frames ==
    [dominantFreq : {10, 50, 90}, energy : {50}, spectralCentroid : {25},
     isBeat : BOOLEAN]
    \cup [dominantFreq : {-50, 150}, energy : {150}, spectralCentroid : {-200},
          isBeat : {FALSE}]

CallActivate ==
    /\ Activate
    /\ sessionStart' = IF isActive THEN sessionStart ELSE customizations
    /\ lastOp' = "activate"
    /\ UNCHANGED libVars
    /\ UNCHANGED <<lastHue, lastSaturation, lastBrightness, customizations, webVars,
                   fed, trace, beats>>

CallDeactivate ==
    /\ Deactivate
    /\ lastOp' = "deactivate"
    /\ UNCHANGED libVars
    /\ UNCHANGED <<baseColors, lastHue, lastSaturation, lastBrightness, webVars,
                   sessionStart, fed, trace, beats>>

CallProcessAudioData ==
    \E data \in Frames :
        /\ ~isActive \/ Len(fed) < MaxUpdates
        /\ ProcessAudioData(data)
        /\ lastOp' = "processAudioData"
        /\ UNCHANGED libVars
        /\ UNCHANGED <<isActive, baseColors, webVars, sessionStart, trace, beats>>

\* ---------------------------------------------------------- specifications
\* What the user's settings may hold when the extension starts.
UserSettings ==
    { EmptyMap,
      [k \in {"editor.background"} |-> Hex(0, 0, 12)],
      [k \in {"editor.background", "titleBar.activeBackground"} |->
          IF k = "editor.background" THEN Hex(220, 13, 18) ELSE Hex(207, 82, 40)] }

\* After construction: new ReactiveThemeController(), the webview script's
\* initial assignments, no audio loaded.
InitCore ==
    /\ isActive = FALSE
    /\ baseColors = EmptyMap
    /\ lastHue = 0
    /\ lastSaturation = 50 * Scale
    /\ lastBrightness = 50 * Scale
    /\ customizations \in UserSettings
    /\ audioLoaded = FALSE
    /\ playing = FALSE
    /\ reactiveChecked = FALSE
    /\ lastBeat = 0
    /\ bpmText = 0
    /\ lastUpdateTime = 0
    /\ now = 1000
    /\ inbox = <<>>
    /\ sessionStart = EmptyMap
    /\ fed = <<>>
    /\ trace = <<>>
    /\ beats = <<>>
    /\ lastOp = "init"
    /\ melConfig = [numFilters |-> 0, sampleRate |-> 0, fftSize |-> 0]
    /\ melFilterbank = <<>>
    /\ frequencyData = <<>>
    /\ melSpectrum = <<>>
    /\ features = [dominantFreq |-> Zero,
                   energy |-> 0,
                   spectralCentroid |-> Zero,
                   isBeat |-> FALSE,
                   brightness |-> Zero]
    /\ args = <<>>
    /\ result = <<>>
    /\ configLog = <<>>
    /\ requestId = 0

InitWebviewState == InitCore /\ InitHost

Init == InitWebviewState /\ history = <<>>

\* The same, the user's settings empty.
InitWebview == Init /\ customizations = EmptyMap

\* The spectra the draw loop meets in the extension as wired.
Spectra ==
    [dominantFreq : {10, 90}, energy : {0, 60}, spectralCentroid : {50}]

DrawFrame ==
    \E f \in Spectra, dt \in {10, 20} :
        /\ Len(trace) < MaxDraws
        /\ Draw(f, dt)

\* The extension as wired by activate() of extension.ts: the webview, the
\* message handler and the controller behind it.
Next ==
    \/ FileSelect
    \/ PlayClick
    \/ PauseClick
    \/ StopClick
    \/ ToggleClick
    \/ DrawFrame
    \/ OnDidReceiveMessage
    \/ ResetAllColors

Spec == Init /\ [][Next]_vars

\* Any sequence of calls on a ReactiveThemeController.
NextController ==
    \/ CallActivate
    \/ CallDeactivate
    \/ CallProcessAudioData
    \/ ResetAllColors

SpecController == Init /\ [][NextController]_vars

\* Calls on a controller that is fed the frames of the end-to-end scenario
\* in any order and then goes on receiving the last of them.
ScenarioFrames ==
    [dominantFreq : {10, 50, 90}, energy : {50}, spectralCentroid : {25},
     isBeat : {FALSE}]

CallProcessSteady ==
    \E data \in ScenarioFrames :
        /\ \/ ~isActive
           \/ Len(fed) < MaxUpdates
           \/ Len(fed) >= MaxUpdates /\ Len(fed) < MaxSteady /\ data = fed[Len(fed)]
        /\ ProcessAudioData(data)
        /\ lastOp' = "processAudioData"
        /\ UNCHANGED libVars
        /\ UNCHANGED <<isActive, baseColors, webVars, sessionStart, trace, beats>>

NextSmoothing ==
    \/ CallActivate
    \/ CallDeactivate
    \/ CallProcessSteady

SpecSmoothing == InitWebview /\ [][NextSmoothing]_vars

\* Calls on a controller that is fed frames at the ends of the features'
\* range [0, 1] in any order and then goes on receiving the last of them.
RangeFrames ==
    {[dominantFreq |-> f[1], energy |-> f[2], spectralCentroid |-> f[3], isBeat |-> FALSE] :
        f \in {<<0, 0, 0>>, <<100, 100, 100>>, <<0, 100, 50>>, <<100, 0, 50>>}}

CallProcessInRange ==
    \E data \in RangeFrames :
        /\ \/ ~isActive
           \/ Len(fed) < MaxUpdates
           \/ Len(fed) >= MaxUpdates /\ Len(fed) < MaxSteady /\ data = fed[Len(fed)]
        /\ ProcessAudioData(data)
        /\ lastOp' = "processAudioData"
        /\ UNCHANGED libVars
        /\ UNCHANGED <<isActive, baseColors, webVars, sessionStart, trace, beats>>

NextRange ==
    \/ CallActivate
    \/ CallDeactivate
    \/ CallProcessInRange

SpecRange == InitWebview /\ [][NextRange]_vars

\* The draw loop on a stream at the quiet level with at most MaxSpikes other
\* frames, one frame every UPDATE_INTERVAL.
\* Energies of the stream, in hundredths.
Level == [silent |-> 0, quiet |-> 20, spike |-> 50]


DrawBeatFrame ==
    \E e \in {Level.silent, Level.quiet, Level.spike} :
        /\ Len(trace) < MaxBeatFrames
        /\ e # Level.quiet =>
              Cardinality({i \in 1..Len(trace) : trace[i] # Level.quiet}) < MaxSpikes
        /\ Draw([dominantFreq |-> 0, energy |-> e, spectralCentroid |-> 0],
                UPDATE_INTERVAL)

NextBeat == FileSelect \/ PlayClick \/ DrawBeatFrame

SpecBeat == InitWebview /\ [][NextBeat]_vars

\* The draw loop with frames at varying distances in time.
DrawBpmFrame ==
    \E e \in {0, 20, 100}, dt \in {20, 300, 1010} :
        /\ Len(trace) < MaxBpmFrames
        /\ Draw([dominantFreq |-> 0, energy |-> e, spectralCentroid |-> 0], dt)

NextBpm == FileSelect \/ PlayClick \/ DrawBpmFrame

SpecBpm == InitWebview /\ [][NextBpm]_vars

\* ------------------------------------------------ the filterbank functions
\* Configurations: valid ones, and ones with numFilters < 1 or fftSize < 2.
MelConfigs ==
    [numFilters : 0..MaxFilters,
     sampleRate : {2 * MelBreak, 6 * MelBreak},
     fftSize : {0, 1, 2, 4, 8}]

ValidConfig(cfg) == cfg.numFilters >= 1 /\ cfg.fftSize >= 2 /\ cfg.sampleRate > 0

\* Filters with leftBin <= centerBin <= rightBin.
Filters ==
    {f \in [leftBin : 0..MaxBin, centerBin : 0..MaxBin, rightBin : 0..MaxBin] :
        f.leftBin <= f.centerBin /\ f.centerBin <= f.rightBin}

\* Byte spectra (Uint8Array) of positive length.
ByteFrames ==
    UNION {[1..n -> {0, 255}] : n \in 1..MaxFrameLen}

\* melFilterbank = createMelFilterbank(numFilters, fftSize, sampleRate), once,
\* when the script is loaded.
CallCreateMelFilterbank ==
    /\ lastOp = "init"
    /\ \E cfg \in MelConfigs :
          \E bank \in CreateMelFilterbank(cfg) :
              /\ melConfig' = cfg
              /\ melFilterbank' = bank
    /\ frequencyData' = <<>>
    /\ melSpectrum' = <<>>
    /\ lastOp' = "createMelFilterbank"
    /\ UNCHANGED <<ctlVars, customizations, webVars, features, callVars, bridgeVars,
                   hostVars,
                   sessionStart, fed, trace, beats>>

\* applyMelFilterbank(fftData, [filter]) for a filter given directly.
CallApplyMelFilterbank ==
    \E filter \in Filters, data \in ByteFrames :
        /\ melFilterbank' = <<filter>>
        /\ frequencyData' = data
        /\ melSpectrum' = ApplyMelFilterbank(data, <<filter>>)
        /\ lastOp' = "applyMelFilterbank"
        /\ UNCHANGED <<ctlVars, customizations, webVars, melConfig, features,
                       callVars, bridgeVars, hostVars, sessionStart, fed, trace, beats>>

\* The analysis of one frame in draw(): applyMelFilterbank, then
\* analyzeAudioFeatures, which also pushes the energy to the beat history.
AnalyzeFrame ==
    \E data \in ByteFrames :
        /\ Len(trace) < MaxAnalyses
        /\ frequencyData' = data
        /\ melSpectrum' = ApplyMelFilterbank(data, melFilterbank)
        /\ features' = AnalyzeAudioFeatures(data, melSpectrum', history)
        /\ history' = PushEnergy(history, features'.energy)
        /\ trace' = Append(trace, features'.energy)
        /\ beats' = Append(beats, features'.isBeat)
        /\ lastOp' = "analyzeAudioFeatures"
        /\ UNCHANGED <<ctlVars, customizations, audioLoaded, playing, reactiveChecked,
                       lastBeat, bpmText, lastUpdateTime, now, inbox, melConfig,
                       melFilterbank, callVars, bridgeVars, hostVars, sessionStart, fed>>

\* Beat histories the detector can hold when a frame arrives (hundredths).
MelHistories ==
    { <<>>, <<0>>, <<100>>, <<30, 70>>, [i \in 1..HistoryCap |-> 50] }

InitMel == InitWebviewState /\ customizations = EmptyMap /\ history \in MelHistories

NextMel ==
    \/ CallCreateMelFilterbank
    \/ AnalyzeFrame

\* createMelFilterbank, then the analysis of frames.
SpecMel == InitMel /\ [][NextMel]_vars

\* applyMelFilterbank on its own.
SpecApply == InitWebview /\ [][CallApplyMelFilterbank]_vars

\* ------------------------------------------------- the colour functions
\* What a call of a colour function leaves alone.  The colour functions are
\* pure: each is called once, on every input, from the initial state.
restVars == <<ctlVars, customizations, webVars, melVars, bridgeVars, hostVars,
              sessionStart, fed,
              trace, beats>>

\* Colour strings around the warm and the cool hue and across the 0/360 seam.
HueColours ==
    {Hex(h, 80, 50) : h \in {0, 29, 30, 31, 120, 150, 209, 210, 211, 300, 350, 359}}

Amounts == {-100, -50, -1, 0, 1, 50, 100}

CallAdjustTemperature ==
    \E color \in HueColours \cup {Unparseable}, amount \in Amounts :
        /\ lastOp = "init"
        /\ args' = [amount |-> amount, color |-> color]
        /\ result' = AdjustTemperature(color, amount)
        /\ lastOp' = "adjustTemperature"
        /\ UNCHANGED restVars

\* Greys of lightness 0%, 5%, .., 100%.
Greys == {Hex(0, 0, 5 * k) : k \in 0..20}

\* Target ratios in tenths; no two greys are 25 apart.
TargetRatios == {30, 45, 70, 200, 250}

CallEnsureReadability ==
    \E fg \in Greys \cup {Unparseable},
       bg \in {Hex(0, 0, 0), Hex(0, 0, 20), Hex(0, 0, 50), Hex(0, 0, 55),
               Hex(0, 0, 100), Unparseable},
       tenths \in TargetRatios :
        /\ lastOp = "init"
        /\ args' = [foreground |-> fg, background |-> bg, targetRatio |-> tenths]
        /\ result' = EnsureReadability(fg, bg, tenths)
        /\ lastOp' = "ensureReadability"
        /\ UNCHANGED restVars

\* Colour strings by channels.
RgbColours == {Rgb(0, 0, 0), Rgb(255, 255, 255), Rgb(255, 0, 0), Rgb(10, 200, 31)}

CallGenerateGradient ==
    \E startColor \in RgbColours \cup {Unparseable},
       endColor \in RgbColours \cup {Unparseable},
       steps \in (-1)..MaxSteps :
        /\ lastOp = "init"
        /\ args' = [startColor |-> startColor, endColor |-> endColor, steps |-> steps]
        /\ result' = GenerateGradient(startColor, endColor, steps)
        /\ lastOp' = "generateGradient"
        /\ UNCHANGED restVars

CallGenerateGradientTool ==
    \E startColor \in RgbColours \cup {Unparseable},
       endColor \in RgbColours \cup {Unparseable},
       steps \in (-1)..MaxSteps :
        /\ lastOp = "init"
        /\ args' = [startColor |-> startColor, endColor |-> endColor, steps |-> steps]
        /\ result' = GenerateGradientTool(startColor, endColor, steps)
        /\ lastOp' = "generateGradientTool"
        /\ UNCHANGED restVars

\* Greys by channels, darkest to lightest.
GreyRgbs == {Rgb(0, 0, 0), Rgb(51, 51, 51), Rgb(128, 128, 128), Rgb(255, 255, 255)}

\* Amounts whose 255ths are whole, so that no rounding is a tie.
BrightnessAmounts == {-100, -20, 0, 20, 100}

CallAdjustBrightness ==
    \E color \in GreyRgbs \cup {Unparseable}, amount \in BrightnessAmounts :
        /\ lastOp = "init"
        /\ args' = [amount |-> amount, color |-> color]
        /\ result' = AdjustBrightness(color, amount)
        /\ lastOp' = "adjustBrightness"
        /\ UNCHANGED restVars

CallAdjustSaturation ==
    \E color \in HueColours \cup {Unparseable}, amount \in Amounts :
        /\ lastOp = "init"
        /\ args' = [amount |-> amount, color |-> color]
        /\ result' = AdjustSaturation(color, amount)
        /\ lastOp' = "adjustSaturation"
        /\ UNCHANGED restVars

Degrees == {-360, -120, -1, 0, 1, 120, 180, 360}

CallShiftHue ==
    \E color \in HueColours \cup {Unparseable}, degrees \in Degrees :
        /\ lastOp = "init"
        /\ args' = [color |-> color, degrees |-> degrees]
        /\ result' = ShiftHue(color, degrees)
        /\ lastOp' = "shiftHue"
        /\ UNCHANGED restVars

CallGetComplementary ==
    \E color \in HueColours \cup {Unparseable} :
        /\ lastOp = "init"
        /\ args' = [color |-> color]
        /\ result' = GetComplementary(color)
        /\ lastOp' = "getComplementary"
        /\ UNCHANGED restVars

CallGetAnalogous ==
    \E color \in HueColours \cup {Unparseable} :
        /\ lastOp = "init"
        /\ args' = [color |-> color]
        /\ result' = GetAnalogous(color)
        /\ lastOp' = "getAnalogous"
        /\ UNCHANGED restVars

CallMix ==
    \E color1 \in RgbColours \cup {Unparseable},
       color2 \in RgbColours \cup {Unparseable},
       amount \in {0, 20, 100} :
        /\ lastOp = "init"
        /\ args' = [amount |-> amount, color1 |-> color1, color2 |-> color2]
        /\ result' = Mix(color1, color2, amount)
        /\ lastOp' = "mix"
        /\ UNCHANGED restVars

CallGenerateHarmony ==
    \E baseColor \in HueColours \cup {Unparseable}, type \in DOMAIN HarmonySpins :
        /\ lastOp = "init"
        /\ args' = [baseColor |-> baseColor, type |-> type]
        /\ result' = GenerateHarmony(baseColor, type)
        /\ lastOp' = "generateHarmony"
        /\ UNCHANGED restVars

NextColor ==
    \/ CallAdjustTemperature
    \/ CallEnsureReadability
    \/ CallGenerateGradient
    \/ CallGenerateGradientTool
    \/ CallAdjustBrightness
    \/ CallAdjustSaturation
    \/ CallShiftHue
    \/ CallGetComplementary
    \/ CallGetAnalogous
    \/ CallMix
    \/ CallGenerateHarmony

SpecColor == InitWebview /\ [][NextColor]_vars

\* ================================================================ claims
\* ------------------------------------------------------------- the bridge
BridgeKeys == {"editor.background", "titleBar.activeBackground"}
BridgeValues == {Hex(0, 0, 12), Hex(300, 80, 50)}

\* Parameters a request can carry, the required ones present, empty or
\* missing (undefined params behave as the params without fields).
BridgeParams ==
    {<<>>, [key |-> ""], [key |-> "editor.background"],
     [target |-> "Workspace", key |-> "titleBar.activeBackground"],
     [value |-> Hex(300, 80, 50), key |-> "editor.background"],
     [value |-> EmptyString, key |-> "editor.background"],
     [target |-> "Window", value |-> Hex(0, 0, 12), key |-> "editor.background"],
     [value |-> Hex(300, 80, 50)],
     [colors |-> [k \in {"titleBar.activeBackground"} |-> Hex(300, 80, 50)]]}

BridgeMethods ==
    {"getCurrentColors", "getColor", "setColor", "setColors", "resetColor",
     "resetAllColors"}

\* A request arrives at the bridge server from anywhere: handleRequest.
CallHandleRequest ==
    \E id \in {<<"req", 0>>, <<"req", 7>>},
       method \in BridgeMethods \cup {"restart"},
       params \in BridgeParams,
       rejects \in BOOLEAN :
        /\ Len(configLog) < MaxLog
        /\ LET request == [params |-> params, method |-> method, id |-> id]
               out == HandleRequest(request, customizations, rejects)
           IN  /\ args' = request
               /\ result' = out.value
               /\ customizations' = out.colors
               /\ configLog' = configLog \o out.log
        /\ lastOp' = "handleRequest"
        /\ UNCHANGED <<ctlVars, webVars, melVars, hostVars, requestId, sessionStart, fed,
                       trace,
                       beats>>

\* Arguments of the setColor tool.
SetColorArgs ==
    {Undefined, <<>>, [key |-> "editor.background"], [value |-> Hex(300, 80, 50)]}
    \cup {[value |-> v, key |-> k] :
            k \in BridgeKeys, v \in BridgeValues \cup {Unparseable, EmptyString}}

\* The standalone server's setColor tool is called.
CallSetColorTool ==
    \E a \in SetColorArgs, rejects \in BOOLEAN :
        /\ Len(configLog) < MaxToolLog
        /\ requestId < MaxRequests
        /\ LET done == SetColorTool(a, customizations, requestId, rejects)
           IN  /\ args' = a
               /\ result' = IF done.out.error # "" THEN [error |-> done.out.error]
                            ELSE done.out.value
               /\ customizations' = done.out.colors
               /\ configLog' = configLog \o done.out.log
               /\ requestId' = done.requestId
        /\ lastOp' = "setColorTool"
        /\ UNCHANGED <<ctlVars, webVars, melVars, hostVars, sessionStart, fed, trace, beats>>

\* ThemeMCPServer.handleSetColor(key, value) is called.
CallHandleSetColor ==
    \E key \in BridgeKeys, value \in BridgeValues \cup {Unparseable, EmptyString},
       rejects \in BOOLEAN :
        /\ Len(configLog) < MaxToolLog
        /\ LET out == HandleSetColor([value |-> value, key |-> key], customizations,
                                     rejects)
           IN  /\ args' = [value |-> value, key |-> key]
               /\ result' = IF out.error # "" THEN [error |-> out.error] ELSE out.value
               /\ customizations' = out.colors
               /\ configLog' = configLog \o out.log
        /\ lastOp' = "handleSetColor"
        /\ UNCHANGED <<ctlVars, webVars, melVars, hostVars, requestId, sessionStart, fed,
                       trace,
                       beats>>

SpecBridge == Init /\ [][CallHandleRequest]_vars

NextTool ==
    \/ CallSetColorTool
    \/ CallHandleSetColor

SpecTool == Init /\ [][NextTool]_vars

\* ---------------------------------------------------------- theme history
\* ------------------------------------------------ VSCodeConfig in flight
notWriteVars == <<ctlVars, webVars, melVars, fxVars, serverVars, termVars,
                  callVars, bridgeVars, histVars, clientVars, sessionStart,
                  fed, trace, beats>>

\* The key and the colour the n-th request writes.
WriteKeys == <<"editor.background", "sideBar.background", "statusBar.background",
               "activityBar.background">>
WriteParams(n) ==
    {[value |-> Hex(300, 80, 50), key |-> WriteKeys[n]],
     [colors |-> [k \in {WriteKeys[n]} |-> Hex(300, 80, 50)]],
     [key |-> WriteKeys[n]]}

\* The method a request with these parameters names.
WriteMethod(params) ==
    IF "colors" \in DOMAIN params THEN "setColors"
    ELSE IF "value" \in DOMAIN params THEN "setColor" ELSE "resetColor"

\* A bridge request setColor, setColors or resetColor is handled up to its
\* call of config.update.
BeginWrite ==
    \E params \in WriteParams(Len(writes) + 1) :
        /\ Len(writes) < MaxWrites
        /\ writes' = Append(writes,
                            BegunWrite(WriteMethod(params), params, customizations))
        /\ lastOp' = "beginWrite"
        /\ UNCHANGED <<customizations, notWriteVars>>

\* A config.update that was called completes: the settings hold what it was
\* given.
CompleteUpdate ==
    \E i \in DOMAIN writes :
        /\ ~writes[i].completed
        /\ customizations' = writes[i].colors
        /\ writes' = [writes EXCEPT ![i].completed = TRUE]
        /\ lastOp' = "completeUpdate"
        /\ UNCHANGED notWriteVars

NextWrites ==
    \/ BeginWrite
    \/ CompleteUpdate

SpecWrites == Init /\ [][NextWrites]_vars

\* ------------------------------------------------- terminals in a window
notTermVars == <<ctlVars, webVars, melVars, fxVars, serverVars, histVars,
                 clientVars, writeVars, sessionStart, fed, trace, beats>>

\* createTerminal(options): VS Code opens a terminal, for which it will fire
\* the open-terminal event.
CreateTerminal ==
    /\ spawned < MaxTerminals
    /\ terminals' = MapSet(terminals, nextId, spawned + 1)
    /\ nextId' = nextId + 1
    /\ windowTerminals' = windowTerminals \cup {spawned + 1}
    /\ termEvents' = Append(termEvents, [type |-> "open", terminal |-> spawned + 1])
    /\ spawned' = spawned + 1
    /\ args' = <<>>
    /\ result' = [value |-> nextId]
    /\ lastOp' = "createTerminal"
    /\ UNCHANGED <<customizations, bridgeVars, notTermVars>>

\* The user opens a terminal.
UserOpensTerminal ==
    /\ spawned < MaxTerminals
    /\ windowTerminals' = windowTerminals \cup {spawned + 1}
    /\ termEvents' = Append(termEvents, [type |-> "open", terminal |-> spawned + 1])
    /\ spawned' = spawned + 1
    /\ lastOp' = "userOpens"
    /\ UNCHANGED <<terminals, nextId, customizations, callVars, bridgeVars, notTermVars>>

\* The user closes a terminal.
UserClosesTerminal ==
    \E terminal \in windowTerminals :
        /\ windowTerminals' = windowTerminals \ {terminal}
        /\ termEvents' = Append(termEvents, [type |-> "close", terminal |-> terminal])
        /\ lastOp' = "userCloses"
        /\ UNCHANGED <<terminals, nextId, spawned, customizations, callVars, bridgeVars,
                       notTermVars>>

\* VS Code delivers the oldest event to the listener the constructor
\* registered for it.
DeliverTerminalEvent ==
    /\ termEvents # <<>>
    /\ IF Head(termEvents).type = "open"
       THEN /\ terminals' = MapSet(terminals, nextId, Head(termEvents).terminal)
            /\ nextId' = nextId + 1
       ELSE /\ terminals' = OnDidCloseTerminal(terminals, Head(termEvents).terminal)
            /\ nextId' = nextId
    /\ termEvents' = Tail(termEvents)
    /\ lastOp' = Head(termEvents).type
    /\ UNCHANGED <<windowTerminals, spawned, customizations, callVars, bridgeVars,
                   notTermVars>>

\* dispose(terminalId)
DisposeTerminal ==
    \E terminalId \in 1..(2 * MaxTerminals) :
        /\ IF terminalId \notin DOMAIN terminals
           THEN /\ result' = [error |-> "Terminal not found"]
                /\ UNCHANGED <<terminals, windowTerminals, termEvents>>
           ELSE /\ result' = Undefined
                /\ terminals' = MapDelete(terminals, terminalId)
                /\ windowTerminals' = windowTerminals \ {terminals[terminalId]}
                /\ termEvents' = termEvents
                                   \o Closing(windowTerminals, {terminals[terminalId]})
        /\ args' = [terminalId |-> terminalId]
        /\ lastOp' = "dispose"
        /\ UNCHANGED <<nextId, spawned, customizations, bridgeVars, notTermVars>>

\* disposeAll()
DisposeAll ==
    /\ terminals' = [i \in {} |-> 0]
    /\ windowTerminals' = windowTerminals \ {terminals[i] : i \in DOMAIN terminals}
    /\ termEvents' = termEvents
                       \o Closing(windowTerminals, {terminals[i] : i \in DOMAIN terminals})
    /\ args' = <<>>
    /\ result' = Undefined
    /\ lastOp' = "disposeAll"
    /\ UNCHANGED <<nextId, spawned, customizations, bridgeVars, notTermVars>>

\* new TerminalController() in a window with no or one open terminal.
InitTerminal ==
    /\ InitCore
    /\ history = <<>>
    /\ InitThemeHistory(DefaultMaxSize)
    /\ InitClient
    /\ InitWrites
    /\ InitBridgeServer
    /\ InitEffects
    /\ \E n \in 0..1 : InitTerminals(n)

NextTerminal ==
    \/ CreateTerminal
    \/ UserOpensTerminal
    \/ UserClosesTerminal
    \/ DeliverTerminalEvent
    \/ DisposeTerminal
    \/ DisposeAll

SpecTerminal == InitTerminal /\ [][NextTerminal]_vars

\* ------------------------------------------- the extension's bridge server
notServerVars == <<ctlVars, webVars, melVars, fxVars, histVars, clientVars,
                   writeVars, termVars, sessionStart, fed, trace, beats>>

\* provideMcpServerDefinitions(): the bridge server is started and its port
\* is passed to the child process as BRIDGE_PORT.
ProvideMcpServerDefinitions ==
    \E p \in (1..MaxPorts) \ Listening(servers) :
        /\ bridgeServer
        /\ Len(servers) < MaxServers
        /\ servers' = Start(servers, p)
        /\ server' = Len(servers) + 1
        /\ port' = p
        /\ handedOut' = Append(handedOut, p)
        /\ args' = <<>>
        /\ result' = [value |-> p]
        /\ lastOp' = "provideMcpServerDefinitions"
        /\ UNCHANGED <<bridgeServer, customizations, bridgeVars, notServerVars>>

\* deactivate() of the extension
ExtensionDeactivate ==
    /\ servers' = IF bridgeServer THEN Stop(servers, server) ELSE servers
    /\ bridgeServer' = FALSE
    /\ args' = <<>>
    /\ result' = Undefined
    /\ lastOp' = "extensionDeactivate"
    /\ UNCHANGED <<server, port, handedOut, customizations, bridgeVars, notServerVars>>

\* A child process sends a request to the BRIDGE_PORT it was given.
ChildRequest ==
    \E i \in DOMAIN handedOut :
        /\ args' = [port |-> handedOut[i]]
        /\ result' = IF handedOut[i] \in Listening(servers)
                     THEN [value |-> handedOut[i]]
                     ELSE [error |-> "connect ECONNREFUSED"]
        /\ lastOp' = "childRequest"
        /\ UNCHANGED <<serverVars, customizations, bridgeVars, notServerVars>>

NextServer ==
    \/ ProvideMcpServerDefinitions
    \/ ExtensionDeactivate
    \/ ChildRequest

SpecServer == Init /\ [][NextServer]_vars

\* ------------------------------------------------------- effects running
notFxVars == <<ctlVars, webVars, melVars, histVars, clientVars, writeVars,
               termVars, serverVars, sessionStart, fed, trace, beats>>

\* startEffect('matrix-rain', {duration})
StartEffect ==
    \E duration \in {0, 1} :
        /\ started < MaxEffects
        /\ intervals' = MapSet(intervals, started + 1, 0)
        /\ activeEffects' = MapSet(activeEffects, EffectId("matrix-rain", clock), started + 1)
        /\ dueStops' = IF duration > 0
                       THEN dueStops \cup {[effectId |-> EffectId("matrix-rain", clock),
                                            due |-> clock + duration, timer |-> started + 1]}
                       ELSE dueStops
        /\ started' = started + 1
        /\ returned' = Append(returned, EffectId("matrix-rain", clock))
        /\ args' = [effect |-> "matrix-rain", duration |-> duration]
        /\ result' = [value |-> EffectId("matrix-rain", clock)]
        /\ lastOp' = "startEffect"
        /\ UNCHANGED <<clock, customizations, bridgeVars, notFxVars>>

\* The callback of a running interval is called.
IntervalFires ==
    \E h \in DOMAIN intervals :
        /\ intervals[h] < MaxFires
        /\ customizations' = SetEditorBackground(intervals[h])
        /\ intervals' = [intervals EXCEPT ![h] = @ + 1]
        /\ args' = [timer |-> h]
        /\ result' = Undefined
        /\ lastOp' = "interval"
        /\ UNCHANGED <<activeEffects, dueStops, clock, started, returned, bridgeVars,
                       notFxVars>>

\* stopEffect(effectId) for an id startEffect returned
CallStopEffect ==
    \E i \in DOMAIN returned :
        /\ intervals' = StopEffect(activeEffects, intervals, returned[i]).intervals
        /\ activeEffects' = StopEffect(activeEffects, intervals, returned[i]).activeEffects
        /\ args' = [effectId |-> returned[i]]
        /\ result' = Undefined
        /\ lastOp' = "stopEffect"
        /\ UNCHANGED <<dueStops, clock, started, returned, customizations, bridgeVars,
                       notFxVars>>

\* stopAllEffects()
CallStopAllEffects ==
    /\ intervals' = StopAllEffects(activeEffects, intervals).intervals
    /\ activeEffects' = StopAllEffects(activeEffects, intervals).activeEffects
    /\ args' = <<>>
    /\ result' = Undefined
    /\ lastOp' = "stopAllEffects"
    /\ UNCHANGED <<dueStops, clock, started, returned, customizations, bridgeVars,
                   notFxVars>>

\* The duration of an effect has elapsed: setTimeout calls stopEffect.
DurationElapses ==
    \E stop \in dueStops :
        /\ clock >= stop.due
        /\ intervals' = StopEffect(activeEffects, intervals, stop.effectId).intervals
        /\ activeEffects' = StopEffect(activeEffects, intervals, stop.effectId).activeEffects
        /\ dueStops' = dueStops \ {stop}
        /\ args' = [effectId |-> stop.effectId]
        /\ result' = Undefined
        /\ lastOp' = "durationElapsed"
        /\ UNCHANGED <<clock, started, returned, customizations, bridgeVars, notFxVars>>

\* A millisecond passes.
ClockTick ==
    /\ clock < MaxClock
    /\ clock' = clock + 1
    /\ lastOp' = "tick"
    /\ UNCHANGED <<activeEffects, intervals, dueStops, started, returned, customizations,
                   callVars, bridgeVars, notFxVars>>

NextEffects ==
    \/ StartEffect
    \/ IntervalFires
    \/ CallStopEffect
    \/ CallStopAllEffects
    \/ DurationElapses
    \/ ClockTick

SpecEffects == InitWebview /\ [][NextEffects]_vars

\* ------------------------------------------------ BridgeClient in flight
notClientVars == <<ctlVars, customizations, webVars, melVars, fxVars,
                   serverVars, termVars, writeVars, callVars, configLog,
                   histVars, sessionStart, fed, trace, beats>>

\* call(method, params) is called: the request is written.
ClientCall ==
    \E method \in {"getColor", "setColor"} :
        /\ Len(calls) < MaxCalls
        /\ calls' = Append(calls, NewCall(requestId, method, BRIDGE_REQUEST_TIMEOUT_MS))
        /\ requestId' = requestId + 1
        /\ lastOp' = "call"
        /\ UNCHANGED notClientVars

\* The response to request i has been read to its end.
ResponseEnd ==
    \E i \in DOMAIN calls,
       body \in {NoBody, Body("Unknown method", Undefined), Body("", [value |-> "#112233"])} :
        /\ calls[i].seen = {}
        /\ calls' = [calls EXCEPT ![i] = [OnEnd(@, body) EXCEPT !.seen = @ \cup {"end"}]]
        /\ lastOp' = "end"
        /\ UNCHANGED <<requestId, notClientVars>>

\* The request i emits 'error': the connection failed, or the request was
\* destroyed before a response.
RequestError ==
    \E i \in DOMAIN calls :
        /\ calls[i].seen \cap {"end", "error"} = {}
        /\ calls' = [calls EXCEPT ![i] = [OnError(@) EXCEPT !.seen = @ \cup {"error"}]]
        /\ lastOp' = "error"
        /\ UNCHANGED <<requestId, notClientVars>>

\* The socket of request i has been idle for the timeout.
RequestTimeout(i) ==
    /\ i \in DOMAIN calls
    /\ calls[i].seen \cap {"timeout", "error"} = {}
    /\ calls' = [calls EXCEPT ![i] = [OnTimeout(@) EXCEPT !.seen = @ \cup {"timeout"}]]
    /\ lastOp' = "timeout"
    /\ UNCHANGED <<requestId, notClientVars>>

NextClient ==
    \/ ClientCall
    \/ ResponseEnd
    \/ RequestError
    \/ \E i \in 1..MaxCalls : RequestTimeout(i)

\* The timer of every request in flight runs out unless the request has
\* failed before.
SpecClient ==
    /\ Init
    /\ [][NextClient]_vars
    /\ \A i \in 1..MaxCalls : WF_vars(RequestTimeout(i))

\* Colour maps handed to addSnapshot.
HistoryColours ==
    {[k \in {"editor.background"} |-> Hex(0, 0, 12)],
     [k \in {"editor.background"} |-> Hex(300, 80, 50)]}

\* What the theme history's operations leave alone.
notHistVars == <<ctlVars, webVars, melVars, fxVars, serverVars, termVars,
                 writeVars, clientVars, sessionStart, fed, trace, beats>>

\* addSnapshot(colors, description)
CallAddSnapshot ==
    \E colors \in HistoryColours :
        /\ themeHistory' = AddSnapshot(Manager(themeHistory, currentIndex), maxHistorySize,
                                       colors, "", now).history
        /\ currentIndex' = AddSnapshot(Manager(themeHistory, currentIndex), maxHistorySize,
                                       colors, "", now).currentIndex
        /\ discarded' = Len(themeHistory) - (currentIndex + 1)
        /\ args' = [colors |-> colors]
        /\ result' = Undefined
        /\ lastOp' = "addSnapshot"
        /\ UNCHANGED <<customizations, maxHistorySize, bridgeVars, notHistVars>>

\* undo(); config.update in applySnapshot may reject.
Undo ==
    \E rejects \in BOOLEAN :
        /\ IF ~CanUndo(Manager(themeHistory, currentIndex))
           THEN /\ result' = [value |-> FALSE]
                /\ UNCHANGED <<currentIndex, customizations>>
           ELSE /\ currentIndex' = currentIndex - 1
                /\ customizations' =
                      ApplySnapshot(SnapshotAt(themeHistory, currentIndex - 1),
                                    customizations, rejects).colors
                /\ result' =
                      ApplySnapshot(SnapshotAt(themeHistory, currentIndex - 1),
                                    customizations, rejects).result
        /\ args' = <<>>
        /\ lastOp' = "undo"
        /\ discarded' = 0
        /\ UNCHANGED <<themeHistory, maxHistorySize, bridgeVars, notHistVars>>

\* redo()
Redo ==
    \E rejects \in BOOLEAN :
        /\ IF ~CanRedo(Manager(themeHistory, currentIndex))
           THEN /\ result' = [value |-> FALSE]
                /\ UNCHANGED <<currentIndex, customizations>>
           ELSE /\ currentIndex' = currentIndex + 1
                /\ customizations' =
                      ApplySnapshot(SnapshotAt(themeHistory, currentIndex + 1),
                                    customizations, rejects).colors
                /\ result' =
                      ApplySnapshot(SnapshotAt(themeHistory, currentIndex + 1),
                                    customizations, rejects).result
        /\ args' = <<>>
        /\ lastOp' = "redo"
        /\ discarded' = 0
        /\ UNCHANGED <<themeHistory, maxHistorySize, bridgeVars, notHistVars>>

\* jumpTo(index) for a whole index
JumpTo ==
    \E index \in (-1)..(MaxSize + 1), rejects \in BOOLEAN :
        /\ IF index < 0 \/ index >= Len(themeHistory)
           THEN /\ result' = [value |-> FALSE]
                /\ UNCHANGED <<currentIndex, customizations>>
           ELSE /\ currentIndex' = index
                /\ customizations' = IF rejects THEN customizations
                                     ELSE themeHistory[index + 1].colors
                /\ result' = IF rejects THEN [error |-> "Unable to write to settings"]
                             ELSE [value |-> TRUE]
        /\ args' = [index |-> index]
        /\ lastOp' = "jumpTo"
        /\ discarded' = 0
        /\ UNCHANGED <<themeHistory, maxHistorySize, bridgeVars, notHistVars>>

\* clear()
Clear ==
    /\ themeHistory' = CaptureInitialState(maxHistorySize, customizations, now).history
    /\ currentIndex' = CaptureInitialState(maxHistorySize, customizations, now).currentIndex
    /\ args' = <<>>
    /\ result' = Undefined
    /\ lastOp' = "clear"
    /\ discarded' = Len(themeHistory)
    /\ UNCHANGED <<customizations, maxHistorySize, bridgeVars, notHistVars>>

\* GodModeMCPServer.handleSetColor(key, value): the colour is set and the
\* colours read back are added to the history.
GodModeHandleSetColor ==
    \E key \in {"editor.background"},
       value \in {Hex(300, 80, 50), Unparseable},
       rejects \in BOOLEAN :
        /\ Len(configLog) < MaxToolLog
        /\ IF ~IsValidColor(value)
           THEN /\ result' = [error |-> "Invalid color value"]
                /\ discarded' = 0
                /\ UNCHANGED <<customizations, configLog, themeHistory, currentIndex>>
           ELSE IF rejects
           THEN /\ result' = [error |-> "Unable to write to settings"]
                /\ configLog' = configLog \o <<Get, Get, Update("Global")>>
                /\ discarded' = 0
                /\ UNCHANGED <<customizations, themeHistory, currentIndex>>
           ELSE /\ result' = [key |-> key,
                              success |-> TRUE,
                              oldValue |-> IF key \in DOMAIN customizations
                                           THEN customizations[key] ELSE Undefined,
                              newValue |-> value]
                /\ configLog' = configLog \o <<Get, Get, Update("Global"), Get>>
                /\ discarded' = Len(themeHistory) - (currentIndex + 1)
                /\ customizations' = WithColor(customizations, key, value)
                /\ themeHistory' = AddSnapshot(Manager(themeHistory, currentIndex),
                                               maxHistorySize, customizations',
                                               "Set key to value", now).history
                /\ currentIndex' = AddSnapshot(Manager(themeHistory, currentIndex),
                                               maxHistorySize, customizations',
                                               "Set key to value", now).currentIndex
        /\ args' = [value |-> value, key |-> key]
        /\ lastOp' = "handleSetColor"
        /\ UNCHANGED <<requestId, maxHistorySize, notHistVars>>

\* The parsed inputs of import(): text that is no JSON, a wrong version, a
\* history that is no list, and version 1 with a list of 0..MaxSize + 1
\* snapshots and a currentIndex that is absent or any of -1..MaxSize + 1.
ImportedHistory(n) ==
    [i \in 1..n |-> Snapshot([k \in {"editor.background"} |-> Hex(0, 0, 12)], "", now)]

ImportData ==
    {NotJson, Parsed(2, TRUE, <<>>, FALSE, 0), Parsed(1, FALSE, <<>>, FALSE, 0)}
    \cup {Parsed(1, TRUE, ImportedHistory(n), FALSE, 0) : n \in 0..(MaxSize + 1)}
    \cup {Parsed(1, TRUE, ImportedHistory(n), TRUE, i) :
            n \in 0..(MaxSize + 1), i \in (-1)..(MaxSize + 1)}

\* import(json)
CallImport ==
    \E data \in ImportData :
        /\ themeHistory' = Import(Manager(themeHistory, currentIndex), data).manager.history
        /\ currentIndex' = Import(Manager(themeHistory, currentIndex), data).manager.currentIndex
        /\ result' = [value |-> Import(Manager(themeHistory, currentIndex), data).value]
        /\ args' = [json |-> data]
        /\ lastOp' = "import"
        /\ discarded' = 0
        /\ UNCHANGED <<customizations, maxHistorySize, bridgeVars, notHistVars>>

\* new ThemeHistoryManager(maxSize) for a small maxSize.
InitHistory ==
    /\ InitCore
    /\ history = <<>>
    /\ \E maxSize \in 1..MaxSize : InitThemeHistory(maxSize)
    /\ InitHostRest

NextHistory ==
    \/ CallAddSnapshot
    \/ Undo
    \/ Redo
    \/ JumpTo
    \/ Clear
    \/ GodModeHandleSetColor

SpecHistory == InitHistory /\ [][NextHistory]_vars

\* A manager whose history is imported, then undone, redone and added to.
NextImport ==
    \/ CallImport
    \/ Undo
    \/ Redo
    \/ CallAddSnapshot

SpecImport == InitHistory /\ [][NextImport]_vars

Last(s) == s[Len(s)]
DominantFreqs(s) == [i \in 1..Len(s) |-> s[i].dominantFreq]
Flip(f) == [f EXCEPT !.isBeat = ~f.isBeat]

\* ---------------------------------------------------------------------- C1
\* C1: when a deactivate() takes the controller from Active to Idle, the
\* colour customizations it leaves applied are exactly (same keys, same
\* values) those that were applied at the activate() that started the
\* session; an activate() while Active leaves the stored baseline alone.
C1_DeactivateRestoresSessionStart ==
    [][ /\ (isActive /\ ~isActive') => customizations' = sessionStart
        /\ (isActive /\ lastOp' = "activate") => baseColors' = baseColors
      ]_vars

\* A session with updates, started on non-empty customizations, has ended and
\* the customizations are the session's starting ones again.
C1_Witness ==
    /\ lastOp = "deactivate"
    /\ ~isActive
    /\ fed # <<>>
    /\ sessionStart # EmptyMap
    /\ customizations = sessionStart

\* ---------------------------------------------------------------------- C2
\* C2: processAudioData() called while the controller is Idle changes neither
\* the smoothing state, nor the stored baseline, nor the applied colour
\* customizations.
C2_IdleProcessIsNoOp ==
    [][ (~isActive /\ lastOp' = "processAudioData") =>
            UNCHANGED <<lastHue, lastSaturation, lastBrightness, baseColors,
                        customizations>>
      ]_vars

\* processAudioData() was called while Idle, after a session that had moved
\* the smoothing state.
C2_Witness ==
    /\ lastOp = "processAudioData"
    /\ ~isActive
    /\ fed # <<>>
    /\ lastHue # 0

Closer(before, after, target) ==
    /\ Abs(10 * after - (7 * before + 3 * target)) <= 5
    /\ Abs(after - target) <= Abs(before - target)
    /\ Abs(before - target) > 1 => Abs(after - target) < Abs(before - target)

C4_BeatBoostIsTransient ==
    /\ \A f \in Frames :
          LET r == Smoothed(f)
          IN  /\ r = Smoothed(Flip(f))
              /\ \E k \in PaletteKeys :
                    Palette(r.hue, r.sat, r.bri, TRUE)[k]
                      # Palette(r.hue, r.sat, r.bri, FALSE)[k]
    /\ (lastOp = "processAudioData" /\ isActive /\ fed # <<>>) =>
          customizations = Palette(lastHue, lastSaturation, lastBrightness, Last(fed).isBeat)

\* A beat frame and then the same frame without the beat have been processed:
\* the status bar no longer shows the beat colour.
C4_Witness ==
    /\ lastOp = "processAudioData"
    /\ isActive
    /\ Len(fed) = 2
    /\ fed[1].isBeat
    /\ fed[2] = Flip(fed[1])
    /\ customizations["statusBar.foreground"] # Hex(0, 0, 0)

\* ---------------------------------------------------------------------- C5
\* C5: whatever the frames, the smoothed state stays in valid ranges: hue in
\* [0, 360), saturation and lightness in [0, 100].
C5_SmoothedStateInRange ==
    /\ 0 <= lastHue /\ lastHue < 360 * Scale
    /\ 0 <= lastSaturation /\ lastSaturation <= 100 * Scale
    /\ 0 <= lastBrightness /\ lastBrightness <= 100 * Scale

\* ---------------------------------------------------------------------- C6
\* C6: every activate() that takes the controller from Idle to Active leaves
\* the smoothing state at the neutral hue 0, saturation 50, lightness 50.
C6_ActivateResetsSmoothing ==
    [][ (~isActive /\ isActive') =>
            /\ lastHue' = 0
            /\ lastSaturation' = 50 * Scale
            /\ lastBrightness' = 50 * Scale
      ]_vars

\* ---------------------------------------------------------------------- C7
\* C7: every audioAnalysis message the extension receives from the webview
\* (posted while the toggle is on and audio is playing) updates the colour
\* customizations from that frame: the frame reaches the smoothing code and
\* the customizations become the palette derived from it.
C7_MessageUpdatesTheme ==
    [][ lastOp' = "audioAnalysis" =>
            /\ fed' = Append(fed, Head(inbox))
            /\ customizations' =
                 Palette(lastHue', lastSaturation', lastBrightness', Head(inbox).isBeat)
      ]_vars

\* ---------------------------------------------------------------------- C8
\* C8: after any number of analysed frames the energy history holds at most
\* 43 samples and they are the most recent ones, in arrival order.
C8_HistoryIsRecentWindow ==
    LET n == Len(trace)
        k == IF n > 43 THEN 43 ELSE n
    IN  /\ Len(history) = k
        /\ \A i \in 1..k : history[i] = trace[n - k + i]

\* Two frames more than the history holds have been analysed; the spike that
\* arrived third is now the oldest sample kept.
C8_Witness ==
    /\ Len(trace) = 45
    /\ trace[3] = Level.spike
    /\ Len(history) = 43
    /\ history[1] = Level.spike

\* ---------------------------------------------------------------------- C9
\* C9: isBeat of the frame analysed last (so of every frame) is true exactly when the frame's energy exceeds 1.3
\* times the mean of the history, the frame's own sample included, over as
\* many samples as exist (at least one, at most 43); so 42 frames at 0.2 and
\* then one at 0.5 give a beat on the last frame only.
WindowStart(i) == IF i > 43 THEN i - 42 ELSE 1

C9_BeatIffAboveMean ==
    /\ Len(beats) = Len(trace)
    /\ trace # <<>> =>
          LET i == Len(trace)
              window == SubSeq(trace, WindowStart(i), i)
          IN  /\ Len(window) >= 1
              /\ beats[i] <=> (10 * trace[i] * Len(window) > 13 * Sum(window))
    /\ (/\ Len(trace) = 43
        /\ \A i \in 1..42 : trace[i] = Level.quiet
        /\ trace[43] = Level.spike)
       => (beats[43] /\ \A i \in 1..42 : ~beats[i])

\* The scenario's 43 frames have been analysed.
C9_Witness ==
    /\ Len(trace) = 43
    /\ \A i \in 1..42 : trace[i] = Level.quiet /\ ~beats[i]
    /\ trace[43] = Level.spike
    /\ beats[43]

\* --------------------------------------------------------------------- C10
\* C10: an analysed frame changes the displayed BPM only if it is a beat with
\* an earlier beat and round(60 / seconds since that beat) lies in [60, 200],
\* and then to that value; any other frame leaves the displayed BPM as it
\* was; the last-beat timestamp is set on every beat and only then.
HadBeat == \E i \in 1..Len(beats) : beats[i]
\* 59.5 <= 60000 / ms < 200.5
InBand(ms) == 119 * ms <= 120000 /\ 120000 < 401 * ms
\* r = round(60000 / ms)
IsRounded(r, ms) == (2 * r - 1) * ms <= 120000 /\ 120000 < (2 * r + 1) * ms

C10_BpmOnlyInBand ==
    [][ Len(trace') = Len(trace) + 1 =>
          LET ms == now' - lastBeat
          IN  /\ IF Last(beats') /\ HadBeat /\ InBand(ms)
                 THEN IsRounded(bpmText', ms) /\ bpmText' >= 60 /\ bpmText' <= 200
                 ELSE bpmText' = bpmText
              /\ lastBeat' = IF Last(beats') THEN now' ELSE lastBeat
      ]_vars

\* A third beat has just been analysed and the display holds a tempo.
C10_Witness ==
    /\ Cardinality({i \in 1..Len(beats) : beats[i]}) >= 3
    /\ Last(beats)
    /\ lastBeat = now
    /\ bpmText = 200

\* --------------------------------------------------------------------- C11
\* C11: for every valid configuration createMelFilterbank returns exactly
\* numFilters filters, each with leftBin <= centerBin <= rightBin, and the
\* centerBin of successive filters does not decrease.
C11_FilterbankOrdered ==
    (lastOp # "init" /\ ValidConfig(melConfig)) =>
        /\ Len(melFilterbank) = melConfig.numFilters
        /\ \A i \in 1..Len(melFilterbank) :
              /\ melFilterbank[i].leftBin <= melFilterbank[i].centerBin
              /\ melFilterbank[i].centerBin <= melFilterbank[i].rightBin
        /\ \A i \in 1..(Len(melFilterbank) - 1) :
              melFilterbank[i].centerBin <= melFilterbank[i + 1].centerBin

\* A bank of MaxFilters filters was created whose centres rise and whose
\* last filter ends on the Nyquist bin.
C11_Witness ==
    /\ lastOp = "createMelFilterbank"
    /\ ValidConfig(melConfig)
    /\ melConfig.numFilters = MaxFilters
    /\ melFilterbank[1].centerBin < melFilterbank[MaxFilters].centerBin
    /\ melFilterbank[MaxFilters].rightBin = melConfig.fftSize \div 2

\* --------------------------------------------------------------------- C12
\* C12: createMelFilterbank returns no filters whenever numFilters < 1,
\* fftSize < 2 or sampleRate <= 0.
C12_InvalidConfigFails ==
    (lastOp = "createMelFilterbank" /\ ~ValidConfig(melConfig)) =>
        melFilterbank = <<>>

\* --------------------------------------------------------------------- C13
\* C13: for an all-zero frame of positive length, any beat history and a
\* non-empty mel spectrum, analyzeAudioFeatures yields energy 0, brightness
\* 0, spectralCentroid 0, dominantFreq 0 and isBeat false, and none of its
\* divisions has a zero divisor.
AllZero(d) == \A i \in 1..Len(d) : d[i] = 0

C13_SilenceIsNeutral ==
    (lastOp = "analyzeAudioFeatures" /\ AllZero(frequencyData) /\ melSpectrum # <<>>) =>
        /\ features = [dominantFreq |-> Zero,
                       energy |-> 0,
                       spectralCentroid |-> Zero,
                       isBeat |-> FALSE,
                       brightness |-> Zero]
        /\ Len(frequencyData) > 0
        /\ Len(history) > 0
        /\ Len(frequencyData) - (Len(frequencyData) * 6) \div 10 > 0
        /\ Len(melSpectrum) > 0

\* A silent frame was analysed with a full history of non-zero energies and
\* a mel spectrum that holds a NaN.
C13_Witness ==
    /\ lastOp = "analyzeAudioFeatures"
    /\ AllZero(frequencyData)
    /\ Len(frequencyData) = MaxFrameLen
    /\ Len(history) = HistoryCap
    /\ history[1] > 0
    /\ \E i \in 1..Len(melSpectrum) : melSpectrum[i].nan

\* --------------------------------------------------------------------- C14
\* C14: for every filter with leftBin <= centerBin <= rightBin and every
\* frame, applyMelFilterbank yields a number for the filter, and 0 when none
\* of the filter's bins lies inside the frame.
C14_FilterValueDefined ==
    lastOp = "applyMelFilterbank" =>
        /\ ~melSpectrum[1].nan
        /\ melFilterbank[1].leftBin >= Len(frequencyData) => melSpectrum[1] = Zero

\* --------------------------------------------------------------------- C15
\* C15: for a valid colour of hue h and an amount in [-100, 100],
\* adjustTemperature returns a colour whose hue lies in [0, 360) and is h
\* moved by |amount| / 100 of the signed shortest arc (at most 180 degrees)
\* from h to 30 (amount > 0) or to 210 (amount <= 0); hue 350 with amount 50
\* gives hue 10.
ShortestArcs(from, to) ==
    {d \in {to - from - 360 * Scale, to - from, to - from + 360 * Scale} :
        Abs(d) <= 180 * Scale}

C15_TemperatureShortestArc ==
    (lastOp = "adjustTemperature" /\ args.color # Unparseable) =>
        LET h == args.color.h
            target == IF args.amount > 0 THEN 30 * Scale ELSE 210 * Scale
        IN  /\ 0 <= result.h /\ result.h < 360 * Scale
            /\ \E d \in ShortestArcs(h, target) :
                  (result.h - h - RoundDiv(d * Abs(args.amount), 100)) % (360 * Scale) = 0
            /\ (h = 350 * Scale /\ args.amount = 50) => result.h = 10 * Scale

\* Hue 350 was warmed by 50: the result is hue 10, across the seam.
C15_Witness ==
    /\ lastOp = "adjustTemperature"
    /\ args.color = Hex(350, 80, 50)
    /\ args.amount = 50
    /\ result = Hex(10, 80, 50)

\* --------------------------------------------------------------------- C16
\* C16: ensureReadability returns, for valid colours, the first of the
\* candidates number 0 .. 99 whose contrast with the background reaches the
\* target, and the candidate number 100 if none does, candidate k being the
\* foreground darkened k times by 5% when the background is light and
\* lightened k times by 5% when it is dark; with an unparseable foreground or
\* background it returns the foreground unchanged.
Candidate(fg, bg, k) ==
    IF bg.l > 50 * Scale
    THEN [h |-> fg.h, s |-> fg.s, l |-> Max(0, fg.l - 5 * k * Scale), aa |-> ""]
    ELSE [h |-> fg.h, s |-> fg.s, l |-> Min(100 * Scale, fg.l + 5 * k * Scale), aa |-> ""]

IsMix(x, a, b, num, den) == 2 * Abs(den * (x - a) - (b - a) * num) <= den

C17_GradientEndpoints ==
    /\ lastOp = "generateGradient" =>
          IF /\ args.startColor # Unparseable
             /\ args.endColor # Unparseable
             /\ args.steps >= 2
          THEN /\ Len(result) = args.steps
               /\ result[1] = args.startColor
               /\ result[args.steps] = args.endColor
               /\ \A i \in 1..args.steps :
                     /\ IsMix(result[i].red, args.startColor.red, args.endColor.red,
                              i - 1, args.steps - 1)
                     /\ IsMix(result[i].green, args.startColor.green,
                              args.endColor.green, i - 1, args.steps - 1)
                     /\ IsMix(result[i].blue, args.startColor.blue,
                              args.endColor.blue, i - 1, args.steps - 1)
          ELSE result = <<>>
    /\ lastOp = "generateGradientTool" =>
          LET asked == IF args.steps = 0 THEN DefaultSteps ELSE args.steps
          IN  IF \/ args.startColor = Unparseable
                 \/ args.endColor = Unparseable
                 \/ asked < 2
              THEN result = [error |-> "Invalid colors or steps"]
              ELSE /\ DOMAIN result = {"colors"}
                   /\ Len(result.colors) = asked

\* Five steps from red to white: five colours from the start to the end.
C17_Witness ==
    /\ lastOp = "generateGradient"
    /\ args = [startColor |-> Rgb(255, 0, 0), endColor |-> Rgb(255, 255, 255),
               steps |-> 5]
    /\ Len(result) = 5
    /\ result[1] = Rgb(255, 0, 0)
    /\ result[3] = Rgb(255, 128, 128)
    /\ result[5] = Rgb(255, 255, 255)

\* --------------------------------------------------------------------- C18
\* C18: every colour-algebra function given an unparseable colour string
\* returns null or an empty list, never a colour; readability repair alone
\* returns a colour.
ColourArgs == {"color", "color1", "color2", "baseColor", "startColor", "endColor"}
HasUnparseable(a) == \E f \in DOMAIN a \cap ColourArgs : a[f] = Unparseable

C18_UnparseableGivesNoResult ==
    (lastOp # "init" /\ lastOp # "ensureReadability" /\ lastOp # "generateGradientTool"
        /\ HasUnparseable(args))
        => result \in {Null, <<>>}

\* --------------------------------------------------------------------- C19
\* C19: the response handleRequest returns carries the id of its request; an
\* unknown method, a missing (or empty) required parameter and a rejected
\* configuration update are answered with an error response under that id;
\* and a request whose parameters fail validation makes no call on the
\* configuration and leaves the colour customizations as they were.
Lacks(params, field) ==
    \/ field \notin DOMAIN params
    \/ field = "key" /\ params.key = ""
    \/ field = "value" /\ params.value = EmptyString

FailsValidation(request) ==
    \/ request.method \notin BridgeMethods
    \/ /\ request.method \in {"getColor", "setColor", "resetColor"}
       /\ Lacks(request.params, "key")
    \/ request.method = "setColor" /\ Lacks(request.params, "value")
    \/ request.method = "setColors" /\ "colors" \notin DOMAIN request.params

SetColorCalled(op) == op \in {"setColorTool", "handleSetColor"}

HeldBefore(colors, key, none) == IF key \in DOMAIN colors THEN colors[key] ELSE none

Moved(op, by) ==
    lastOp' = op =>
        IF currentIndex + by < 0 \/ currentIndex + by >= Len(themeHistory)
        THEN /\ result' = [value |-> FALSE]
             /\ UNCHANGED <<themeHistory, currentIndex, customizations>>
        ELSE /\ currentIndex' = currentIndex + by
             /\ themeHistory' = themeHistory
             /\ \/ /\ result' = [value |-> TRUE]
                   /\ customizations' = themeHistory[currentIndex + by + 1].colors
                \/ /\ "error" \in DOMAIN result'
                   /\ customizations' = customizations

C21_UndoThenRedoRestores ==
    [][/\ Moved("undo", -1)
       /\ Moved("redo", 1)
       /\ (lastOp = "undo" /\ result = [value |-> TRUE] /\ lastOp' = "redo") =>
             /\ "error" \in DOMAIN result' \/ result' = [value |-> TRUE]
             /\ currentIndex' = currentIndex + 1
             /\ result' = [value |-> TRUE] =>
                   customizations' = themeHistory[currentIndex + 2].colors
      ]_vars

\* A redo that succeeded and reached the end of a history of two snapshots.
C21_Witness ==
    /\ lastOp = "redo"
    /\ result = [value |-> TRUE]
    /\ Len(themeHistory) = 2
    /\ currentIndex = 1
    /\ customizations = themeHistory[2].colors
    /\ themeHistory[1].colors # themeHistory[2].colors

\* --------------------------------------------------------------------- C22
\* C22: with maxSize >= 1 the history always holds between 1 and
\* maxHistorySize snapshots and 0 <= currentIndex < history.length.  An
\* addSnapshot at the end of a full history drops exactly the oldest snapshot
\* and the new one is current; jumpTo with an index outside the history
\* returns false and changes nothing.
HistoryWellFormed ==
    /\ Len(themeHistory) >= 1
    /\ Len(themeHistory) <= maxHistorySize
    /\ currentIndex >= 0
    /\ currentIndex < Len(themeHistory)

C22_HistoryBounded ==
    /\ HistoryWellFormed
    /\ [][/\ HistoryWellFormed'
          /\ (/\ lastOp' = "addSnapshot"
              /\ Len(themeHistory) = maxHistorySize
              /\ currentIndex = Len(themeHistory) - 1) =>
                /\ Len(themeHistory') = maxHistorySize
                /\ \A i \in 1..(maxHistorySize - 1) : themeHistory'[i] = themeHistory[i + 1]
                /\ themeHistory'[maxHistorySize].colors = args'.colors
                /\ currentIndex' = maxHistorySize - 1
          /\ (/\ lastOp' = "jumpTo"
              /\ (args'.index < 0 \/ args'.index >= Len(themeHistory))) =>
                /\ result' = [value |-> FALSE]
                /\ UNCHANGED <<themeHistory, currentIndex, customizations>>
         ]_vars

\* A full history of two whose initial snapshot has been evicted.
C22_Witness ==
    /\ lastOp = "addSnapshot"
    /\ maxHistorySize = 2
    /\ Len(themeHistory) = 2
    /\ currentIndex = 1
    /\ discarded = 0
    /\ \A i \in 1..2 : themeHistory[i].description # "Initial state"

\* --------------------------------------------------------------------- C23
\* C23: addSnapshot discards every snapshot after currentIndex and appends;
\* afterwards the new snapshot is the last and the current one, canRedo() is
\* false, and the snapshots up to the old currentIndex are as they were,
\* less the oldest when the cap overflowed.
Added == lastOp' = "addSnapshot" \/ (lastOp' = "handleSetColor" /\ "success" \in DOMAIN result')

C23_AddSnapshotCutsFuture ==
    [][Added =>
          LET kept == currentIndex + 1
              evicted == IF kept + 1 > maxHistorySize THEN 1 ELSE 0
          IN  /\ Len(themeHistory') = kept + 1 - evicted
              /\ \A i \in 1..(Len(themeHistory') - 1) :
                    themeHistory'[i] = themeHistory[i + evicted]
              /\ themeHistory'[Len(themeHistory')].colors =
                    IF lastOp' = "addSnapshot" THEN args'.colors ELSE customizations'
              /\ currentIndex' = Len(themeHistory') - 1
              /\ ~CanRedo(Manager(themeHistory', currentIndex'))
      ]_vars

\* An addSnapshot that removed two later snapshots.
C23_Witness ==
    /\ lastOp = "addSnapshot"
    /\ discarded = 2
    /\ Len(themeHistory) = 2
    /\ currentIndex = 1

\* --------------------------------------------------------------------- C30
\* C30: import(json) either returns false and leaves history and
\* currentIndex unchanged, or returns true and leaves the manager well
\* formed (0 <= currentIndex < history.length <= maxHistorySize), so that a
\* following undo or redo addresses an existing snapshot.
C30_ImportLeavesWellFormed ==
    [][/\ lastOp' = "import" =>
             IF result' = [value |-> FALSE]
             THEN UNCHANGED <<themeHistory, currentIndex>>
             ELSE HistoryWellFormed'
       /\ lastOp' \in {"undo", "redo"} => result' # [error |-> "TypeError"]
      ]_vars

\* --------------------------------------------------------------------- C24
\* C24: every call of BridgeClient settles, and settles once: it resolves
\* with the result of a response without error, or rejects on an error
\* response, an unparseable body, a connection error or the timeout (30000
\* ms by default); the ids of one client's requests are pairwise distinct,
\* req-0, req-1, ...
SettledOnce(call) ==
    /\ call.settled = (IF call.promise = "pending" THEN 0 ELSE 1)
    /\ call.promise = "pending" <=> call.seen = {}
    /\ call.promise = "resolved" => "end" \in call.seen /\ "error" \notin DOMAIN call.value
    /\ call.promise = "rejected" => "error" \in DOMAIN call.value
    /\ call.timeout = 30000

ThreeTenthsTo(before, after, targetTimes100) ==
    Abs(10 * after - (7 * before + 3 * targetTimes100 * (Scale \div 100))) <= 5

C25_SmoothedWithinTargets ==
    /\ [](/\ 0 <= lastHue /\ lastHue < 360 * Scale
          /\ 40 * Scale <= lastSaturation /\ lastSaturation <= 100 * Scale
          /\ 30 * Scale <= lastBrightness /\ lastBrightness <= 70 * Scale)
    /\ [][Len(fed') = Len(fed) + 1 =>
            LET f == Last(fed')
            IN  /\ isActive
                /\ f.dominantFreq \in 0..100 /\ f.energy \in 0..100
                /\ f.spectralCentroid \in 0..100
                /\ ThreeTenthsTo(lastHue, lastHue', 100 * ((f.dominantFreq * 360) \div 100))
                /\ ThreeTenthsTo(lastSaturation, lastSaturation', 4000 + f.energy * 60)
                /\ ThreeTenthsTo(lastBrightness, lastBrightness',
                                 3000 + f.spectralCentroid * 40)
       ]_vars

\* The components have come within one of the upper ends of their ranges.
C25_Witness ==
    /\ isActive
    /\ Len(fed) > MaxUpdates
    /\ lastHue > 359 * Scale
    /\ lastSaturation > 99 * Scale
    /\ lastBrightness > 69 * Scale

\* --------------------------------------------------------------------- C26
\* C26: when several colour writes are in flight at once, then after all of
\* them have completed the customizations hold the colour of every request;
\* no update is lost.
C26_NoUpdateLost ==
    (\A i \in DOMAIN writes : writes[i].completed) =>
        \A i \in DOMAIN writes :
            IF writes[i].method = "resetColor"
            THEN WriteKeys[i] \notin DOMAIN customizations
            ELSE /\ WriteKeys[i] \in DOMAIN customizations
                 /\ customizations[WriteKeys[i]] = Hex(300, 80, 50)

\* --------------------------------------------------------------------- C27
\* C27: TerminalController tracks every open terminal under exactly one id:
\* ids are handed out in increasing order and never reused, a terminal
\* created through createTerminal is not registered under two ids, and once
\* the events of a dispose or a close have been delivered no entry for that
\* terminal remains.
C27_OneIdPerTerminal ==
    /\ \A i \in DOMAIN terminals : i < nextId
    /\ \A i, j \in DOMAIN terminals : terminals[i] = terminals[j] => i = j
    /\ termEvents = <<>> => {terminals[i] : i \in DOMAIN terminals} = windowTerminals

\* --------------------------------------------------------------------- C28
\* C28: after deactivate() has completed no bridge HTTP server the extension
\* started is still listening, however often provideMcpServerDefinitions was
\* invoked before; and every BRIDGE_PORT handed out is the port of a server
\* that was listening when it was handed out.
C28_NoServerLeftListening ==
    /\ [](~bridgeServer => Listening(servers) = {})
    /\ [][handedOut' # handedOut => Last(handedOut') \in Listening(servers')]_vars

\* --------------------------------------------------------------------- C29
\* C29: every running effect timer is tracked in activeEffects under the id
\* startEffect returned, so that once the Map is empty (after stopEffect for
\* every id, stopAllEffects or the elapsed durations) no timer is left to
\* fire; also when two effects received the same id.
C29_EveryTimerTracked ==
    /\ \A h \in DOMAIN intervals :
          \E id \in DOMAIN activeEffects : activeEffects[id] = h
    /\ \A id \in DOMAIN activeEffects :
          activeEffects[id] \in DOMAIN intervals /\ \E i \in DOMAIN returned : returned[i] = id
====
